---- MODULE Spec2Model ----
(***************************************************************************)
(* A model of the gate node (pi-node): the phase-based face tracker        *)
(* (gate-node/vision/tracker.py), the recognition dispatcher and its       *)
(* workers (main.py), the decision engine, the gate controller with its    *)
(* auto-close timers (gate-node/core/gate_control.py), the face database   *)
(* (gate-node/storage/face_db.py), the thread that syncs it from the       *)
(* backend (gate-node/threads/sync.py), the access log                     *)
(* (gate-node/storage/logs.py), the alerts of the UI thread and the alarm  *)
(* (threads/ui_v2.py, gate-node/core/alarm.py), the capture thread and its *)
(* frame queues (threads/capture.py), and the start-up and shutdown of the *)
(* node (main.py).                                                         *)
(*                                                                         *)
(* Fixed point: IoU, cosine similarity, distances, confidences and costs   *)
(* are integers in hundredths (0.7 is 70).  Coordinates are pixels.        *)
(***************************************************************************)
EXTENDS Integers, Sequences, FiniteSets, TLC

VARIABLES
    params,      \* DeepSORTLiteTracker constructor arguments
    tracks,      \* DeepSORTLiteTracker._tracks: the list of live Track objects
    next_id,     \* DeepSORTLiteTracker._next_id
    stats,       \* DeepSORTLiteTracker._stats (TrackerStatistics)
    frames,      \* number of update() calls made so far
    trail,       \* history: trail[id] is the sequence of phases track id went through
    marks,       \* history: marks[id] counts update_track_recognition calls that returned True
    gate_is_open,  \* GateController._is_open
    relay,         \* the level _set_relay last drove the relay to: "on" or "off"
    close_timer,   \* GateController._close_timer: a timer (its place in timers) or 0 for None
    gate_stats,    \* GateController._stats
    timers,        \* the threading.Timer objects open_gate started, in order of creation
    extends,       \* history: the timers started by an open_gate call that found the gate open
    main_pc,       \* where the main loop of GateNode.run stands
    cur_frame,     \* the frame the main loop is working on: the faces in it
    todo,          \* tracks_to_recognize: what is left of it, as track ids
    pending,       \* GateNode._pending_recognition
    task_queue,    \* tasks submitted to the recognition executor and not yet started
    workers,       \* the threads of the recognition executor
    opened,        \* history: opened[id] counts the open_gate calls made for track id
    lost,          \* the Track objects removed from the tracker that a recognition task still holds
    access_events, \* the rows of the access_events table of the AccessLogger, oldest first
    marker,        \* a thread inside update_track_recognition, statement by statement
    face_db,       \* the FaceDatabase object: its fields
    disk,          \* the files of the FaceDatabase: metadata, index and version
    db_pc,         \* where the thread inside FaceDatabase._save stands, or "crashed"
    sync,          \* the SyncThread: where it stands, the response it applies, its status
    rounds,        \* history: the responses the sync rounds applied, oldest first
    db_before,     \* history: the FaceDatabase as it was when the current batch began
    ids_created,   \* history: the track_id of every Track _create_track made, oldest first
    engine,        \* a DecisionEngine: its two thresholds
    decided,       \* the last make_decision call on engine: its arguments and what it returned
    clock,         \* time.time(), in seconds since the face's track was marked
    ui,            \* the UIThread: _shown_track_ids, and the alert insertions so far (history)
    alarm,         \* the AlarmSystem: _last_alarm, and the alarms fired so far (history)
    capture,       \* the CaptureThread: its queues and counters, and where _distribute_frame stands
    ai_log,        \* history: the frames get_ai_frame handed out, and those the producer discarded or could not put
    gpio_enabled,  \* GateController.gpio_enabled with RPi.GPIO imported: the relay pin is driven
    cleaned,       \* history: GateController.cleanup() has returned
    boot,          \* GateNode.start and main: the step reached, and the resources held
    gate_clock,  \* time.time() as the gate controller reads it, in seconds
    last_open_time,  \* GateController._last_open_time
    open_call, \* history: the last open_gate call: the state it found and what it counted
    quit, \* the display's render loop and the main vision loop: their flags and where they stand
    active_alerts,  \* UIThread._active_alerts: the alerts in the order of the dict, with the show_alert calls and the tracks so far
    rendered, \* history: the last _render_alert_mode: the alerts that were active and those it drew, in order
    trig  \* the AlarmSystem with callers inside trigger(): config.enabled, the time, _last_alarm, each caller's place, and the calls that returned (history)

trackerVars == <<params, tracks, next_id, stats, frames, trail, marks>>

gateVars == <<gate_is_open, relay, close_timer, gate_stats, timers, extends>>

nodeVars == <<main_pc, cur_frame, todo, pending, task_queue, workers, opened, lost,
              access_events>>

nodeButLog == <<main_pc, cur_frame, todo, pending, task_queue, workers, opened, lost>>

raceVars == <<marker>>

dbVars == <<face_db, disk, db_pc, sync, rounds, db_before>>

lifeVars == <<ids_created>>

decisionVars == <<engine, decided>>

alertVars == <<clock, ui, alarm>>

captureVars == <<capture, ai_log>>

shutdownVars == <<gpio_enabled, cleaned>>

startVars == <<boot>>

cooldownVars == <<gate_clock, last_open_time, open_call>>

quitVars == <<quit>>

renderVars == <<active_alerts, rendered>>

triggerVars == <<trig>>

auxVars == <<lifeVars, decisionVars, alertVars, captureVars, shutdownVars, startVars, cooldownVars, quitVars, renderVars, triggerVars>>
auxButLife == <<decisionVars, alertVars, captureVars, shutdownVars, startVars, cooldownVars, quitVars, renderVars, triggerVars>>
auxButDecision == <<lifeVars, alertVars, captureVars, shutdownVars, startVars, cooldownVars, quitVars, renderVars, triggerVars>>
auxButAlert == <<lifeVars, decisionVars, captureVars, shutdownVars, startVars, cooldownVars, quitVars, renderVars, triggerVars>>
auxButCapture == <<lifeVars, decisionVars, alertVars, shutdownVars, startVars, cooldownVars, quitVars, renderVars, triggerVars>>
auxButShutdown == <<lifeVars, decisionVars, alertVars, captureVars, startVars, cooldownVars, quitVars, renderVars, triggerVars>>
auxButStart == <<lifeVars, decisionVars, alertVars, captureVars, shutdownVars, cooldownVars, quitVars, renderVars, triggerVars>>
auxButCooldown == <<lifeVars, decisionVars, alertVars, captureVars, shutdownVars, startVars, quitVars, renderVars, triggerVars>>
auxButQuit == <<lifeVars, decisionVars, alertVars, captureVars, shutdownVars, startVars, cooldownVars, renderVars, triggerVars>>
auxButRender == <<lifeVars, decisionVars, alertVars, captureVars, shutdownVars, startVars, cooldownVars, quitVars, triggerVars>>
auxButTrigger == <<lifeVars, decisionVars, alertVars, captureVars, shutdownVars, startVars, cooldownVars, quitVars, renderVars>>
vars == <<trackerVars, gateVars, nodeVars, raceVars, dbVars, auxVars>>

----------------------------------------------------------------------------
(* Bounds of the model *)

\* faces ever added to one face database
MaxFaces == 3
\* sync rounds explored
MaxRounds == 3
\* the largest k a search is called with
MaxK == 2
\* update() calls explored
MaxFrames == 3
\* log_access calls explored
MaxEvents == 2
\* seconds a marked face is followed for
MaxClock == 8
\* frames the capture thread reads
MaxCaptured == 5
\* update() calls explored in a run where tracks time out
AgingFrames == 9
\* detections handed to one update() call
MaxDets == 2
\* record_recognition_attempt calls a caller of the tracker API makes per track
ApiAttempts == 1
\* open_gate calls a caller of the gate controller makes
MaxOpens == 3
\* seconds the gate controller is followed for
MaxGateClock == 7
\* trigger() calls that return
MaxTriggerCalls == 3
\* seconds the alarm system is followed for
MaxTriggerClock == 5
\* threads that call trigger()
TriggerCallers == {"first", "second"}
\* tracks that raise an alert on the display
MaxAlertTracks == 5
\* show_alert calls that pass the duplicate test
MaxAlertCalls == 5
\* frames the main loop of the node processes
NodeFrames == 4

----------------------------------------------------------------------------
(* Values *)

None == "None"
\* a Track without an embedding (embedding is None)
NoEmbedding == <<>>
\* a detection or a Track without landmarks (landmarks is None)
NoLandmarks == <<>>

\* TrackPhase
TENTATIVE == "tentative"
CONFIRMED == "confirmed"
RECOGNIZED == "recognized"

\* Three face boxes [x1, y1, x2, y2]: BoxL and BoxL2 are the same place one
\* step apart (IoU 0.6), BoxR is elsewhere in the frame (IoU 0).
BoxL == <<100, 100, 200, 200>>
BoxL2 == <<125, 100, 225, 200>>
BoxR == <<400, 100, 500, 200>>
Boxes == {BoxL, BoxL2, BoxR}

\* People in front of the camera; a face embedding is named by its person.
PersonA == "A"
PersonB == "B"
PersonC == "C"
Persons == {PersonA, PersonB, PersonC}

\* Cosine similarity of two unit embeddings, in hundredths: A and B are
\* strangers (distance 0.8), A and C look alike (distance 0.65).
CosSim(p, q) ==
    IF p = q THEN 100
    ELSE IF {p, q} = {PersonA, PersonC} THEN 35
    ELSE 20

Max2(a, b) == IF a >= b THEN a ELSE b
Min2(a, b) == IF a <= b THEN a ELSE b

RECURSIVE SumTo(_, _)
\* sum of f[1..n]
SumTo(f, n) == IF n = 0 THEN 0 ELSE f[n] + SumTo(f, n - 1)

RECURSIVE ISqrtIn(_, _, _)
\* the integer square root of x, searched in lo..hi (lo*lo <= x < (hi+1)^2)
ISqrtIn(x, lo, hi) ==
    IF lo >= hi THEN lo
    ELSE LET mid == (lo + hi + 1) \div 2
         IN  IF mid * mid <= x THEN ISqrtIn(x, mid, hi) ELSE ISqrtIn(x, lo, mid - 1)

ISqrt(x) == ISqrtIn(x, 0, 46340)

----------------------------------------------------------------------------
(* The tracker: gate-node/vision/tracker.py *)

\* Cost for invalid matches, 1e6 in hundredths
COST_INVALID == 100000000

\* The appearance change beyond which a recognized track is reset (0.7)
SwapThreshold == 70

\* Track.embedding_history is a deque(maxlen=5)
HistoryMaxLen == 5

\* _remove_dead_tracks: timeout of a TENTATIVE track, in frames
TentativeTimeout == 3
\* _remove_dead_tracks: timeout of a recognized track, in frames
RecognizedTimeout == 5

\* Intersection over union of two boxes, in hundredths
ComputeIou(b1, b2) ==
    LET x1 == Max2(b1[1], b2[1])
        y1 == Max2(b1[2], b2[2])
        x2 == Min2(b1[3], b2[3])
        y2 == Min2(b1[4], b2[4])
        inter_area == Max2(0, x2 - x1) * Max2(0, y2 - y1)
        area1 == (b1[3] - b1[1]) * (b1[4] - b1[2])
        area2 == (b2[3] - b2[1]) * (b2[4] - b2[2])
        union_area == area1 + area2 - inter_area
    IN  IF union_area <= 0 THEN 0 ELSE (inter_area * 100) \div union_area

\* np.dot(track.embedding, e), in hundredths.  A track's embedding is the
\* L2-normalised mean of the unit embeddings in mix (a sequence of persons):
\* dot = sum_i <m_i, e> / sqrt(sum_ij <m_i, m_j>).
DotWithMean(mix, e) ==
    LET n == Len(mix)
        num == SumTo([i \in 1..n |-> CosSim(mix[i], e)], n)
        gram == SumTo([i \in 1..n |->
                         SumTo([j \in 1..n |-> CosSim(mix[i], mix[j])], n)], n)
    IN  (1000 * num) \div ISqrt(gram * 10000)

\* deque.append on a deque(maxlen=5): the oldest entry falls out
HistoryAppend(h, e) ==
    IF Len(h) < HistoryMaxLen THEN Append(h, e) ELSE Append(Tail(h), e)

\* Track(...) as _create_track builds it
NewTrack(id, det) ==
    [track_id |-> id, bbox |-> det.bbox, landmarks |-> det.landmarks,
     phase |-> TENTATIVE, hits |-> 1, time_since_update |-> 0,
     embedding |-> NoEmbedding, embedding_history |-> <<>>,
     recognized |-> FALSE, recognition_attempts |-> 0,
     face_id |-> None, status |-> None, confidence |-> 0]

\* The swap test of _update_track_with_detection
SwapDetected(t, emb) ==
    /\ t.recognized
    /\ emb # None
    /\ t.embedding # NoEmbedding
    /\ 100 - DotWithMean(t.embedding, emb) > SwapThreshold

\* A reset that clears the identity and leaves the phase alone
SwapResetKeepsPhase(t, emb) ==
    [t EXCEPT !.recognized = FALSE, !.recognition_attempts = 0,
              !.face_id = None, !.status = None, !.confidence = 0,
              !.embedding_history = <<emb>>, !.embedding = <<emb>>]

\* The reset a detected swap performs
SwapReset(t, emb) ==
    [t EXCEPT !.recognized = FALSE, !.recognition_attempts = 0,
              !.face_id = None, !.status = None, !.confidence = 0,
              !.phase = CONFIRMED,
              !.embedding_history = <<emb>>, !.embedding = <<emb>>]

\* Track.embedding after an embedding went into the history of a track that
\* is not TENTATIVE
AbsorbEmbedding(t, emb) ==
    IF t.phase # TENTATIVE /\ emb # None
    THEN LET h == HistoryAppend(t.embedding_history, emb)
         IN  [t EXCEPT !.embedding_history = h, !.embedding = h]
    ELSE t

\* The TENTATIVE -> CONFIRMED transition
Promote(t, emb, min_hits) ==
    IF t.phase = TENTATIVE /\ t.hits >= min_hits
    THEN IF emb # None
         THEN [t EXCEPT !.phase = CONFIRMED, !.embedding = <<emb>>,
                        !.embedding_history = HistoryAppend(t.embedding_history, emb)]
         ELSE [t EXCEPT !.phase = CONFIRMED]
    ELSE t

\* _update_track_with_detection
UpdateTrackWithDetection(t, det, min_hits) ==
    LET moved == [t EXCEPT !.bbox = det.bbox, !.hits = t.hits + 1,
                           !.time_since_update = 0,
                           !.landmarks = IF det.landmarks # NoLandmarks
                                         THEN det.landmarks ELSE t.landmarks]
    IN  IF SwapDetected(moved, det.emb)
        THEN SwapReset(moved, det.emb)
        ELSE Promote(AbsorbEmbedding(moved, det.emb), det.emb, min_hits)

\* A cost matrix entry with the IoU gate alone
PairCostIouOnly(det, t, p) ==
    IF ComputeIou(det.bbox, t.bbox) < p.iou_threshold THEN COST_INVALID
    ELSE 100 - ComputeIou(det.bbox, t.bbox)

\* One entry of the cost matrix of _compute_cost_matrix, with its hard gates
PairCost(det, t, p) ==
    LET iou == ComputeIou(det.bbox, t.bbox)
        iou_cost == 100 - iou
    IN  IF iou < p.iou_threshold THEN COST_INVALID
        ELSE IF t.phase = TENTATIVE THEN iou_cost
        ELSE IF det.emb # None /\ t.embedding # NoEmbedding
        THEN LET emb_distance == 100 - DotWithMean(t.embedding, det.emb)
             IN  IF emb_distance > p.max_embedding_distance THEN COST_INVALID
                 ELSE ((100 - p.embedding_weight) * iou_cost
                       + p.embedding_weight * emb_distance) \div 100
        ELSE iou_cost

\* The assignments linear_sum_assignment chooses among: every detection gets
\* a track or none (0), no track is given twice, and min(n_det, n_trk) pairs
\* are made.
Assignments(n_det, n_trk) ==
    {a \in [1..n_det -> 0..n_trk] :
        /\ \A d1, d2 \in 1..n_det : (d1 # d2 /\ a[d1] # 0) => a[d1] # a[d2]
        /\ Cardinality({d \in 1..n_det : a[d] # 0}) = Min2(n_det, n_trk)}

\* The total cost of an assignment
AssignmentCost(a, dets, trks, p) ==
    SumTo([d \in 1..Len(dets) |->
             IF a[d] = 0 THEN 0 ELSE PairCost(dets[d], trks[a[d]], p)], Len(dets))

\* _hungarian_assignment: the minimum-cost assignments (the solver returns
\* one of them), with the pairs of invalid cost filtered out
HungarianAssignments(dets, trks, p) ==
    LET all == Assignments(Len(dets), Len(trks))
        best == {a \in all : \A b \in all :
                    AssignmentCost(a, dets, trks, p) <= AssignmentCost(b, dets, trks, p)}
    IN  {[d \in 1..Len(dets) |->
            IF a[d] # 0 /\ PairCost(dets[d], trks[a[d]], p) < COST_INVALID \div 2
            THEN a[d] ELSE 0] : a \in best}

\* The timeout _remove_dead_tracks gives a track
MaxTimeout(t, p) ==
    IF t.phase = TENTATIVE THEN TentativeTimeout
    ELSE IF t.recognized THEN RecognizedTimeout
    ELSE p.max_age

\* _remove_dead_tracks decides that a track survives
Survives(t, p) == t.time_since_update <= MaxTimeout(t, p)

\* _remove_dead_tracks
RemoveDeadTracks(trks, p) == SelectSeq(trks, LAMBDA t : Survives(t, p))

\* STEP 1 of update: every track ages
Predict(trks) ==
    [i \in 1..Len(trks) |->
        [trks[i] EXCEPT !.time_since_update = trks[i].time_since_update + 1]]

\* STEP 4 of update: the matched tracks take their detections (a match whose
\* IoU is below the threshold is skipped)
ProcessMatches(trks, dets, a, p) ==
    [i \in 1..Len(trks) |->
        IF \E d \in 1..Len(dets) :
              a[d] = i /\ ComputeIou(dets[d].bbox, trks[i].bbox) >= p.iou_threshold
        THEN LET d == CHOOSE d \in 1..Len(dets) : a[d] = i
             IN  UpdateTrackWithDetection(trks[i], dets[d], p.min_hits)
        ELSE trks[i]]

\* The detections update matched to a track
MatchedDets(trks, dets, a, p) ==
    {d \in 1..Len(dets) :
        a[d] # 0 /\ ComputeIou(dets[d].bbox, trks[a[d]].bbox) >= p.iou_threshold}

RECURSIVE CreateTracks(_, _, _, _)
\* STEP 5 of update: a new track for every unmatched detection from the d-th
\* on, in order; nid is the next track id
CreateTracks(dets, matched, d, nid) ==
    IF d > Len(dets) THEN <<>>
    ELSE IF d \in matched THEN CreateTracks(dets, matched, d + 1, nid)
    ELSE <<NewTrack(nid, dets[d])>> \o CreateTracks(dets, matched, d + 1, nid + 1)

\* get_track finds a track
HasTrack(trks, track_id) == \E i \in 1..Len(trks) : trks[i].track_id = track_id

\* get_track: the place in the list of the track it returns
TrackIndex(trks, track_id) == CHOOSE i \in 1..Len(trks) : trks[i].track_id = track_id

\* get_track, for a track that is there
GetTrack(trks, track_id) == trks[TrackIndex(trks, track_id)]

\* Track.is_ready_for_recognition
IsReadyForRecognition(t) == t.phase = CONFIRMED /\ ~t.recognized

\* get_tracks_for_recognition, as the list of track ids
GetTracksForRecognition(trks) ==
    LET ready == SelectSeq(trks, IsReadyForRecognition)
    IN  [i \in 1..Len(ready) |-> ready[i].track_id]

\* Track.mark_recognized
MarkRecognized(t, face_id, status, confidence) ==
    [t EXCEPT !.recognized = TRUE, !.phase = RECOGNIZED, !.face_id = face_id,
              !.status = status, !.confidence = confidence]

\* Statistics that count a confirmation for every matched CONFIRMED track
StatsAfterUpdateEveryHit(st, before, after, created) ==
    LET promoted == {i \in 1..Len(before) : after[i].phase = CONFIRMED}
    IN  [st EXCEPT !.tracks_created = st.tracks_created + created,
                   !.tracks_confirmed = st.tracks_confirmed + Cardinality(promoted)]

\* TrackerStatistics after an update that created `created` tracks and
\* promoted the tracks of `before` that are TENTATIVE there and not in `after`
StatsAfterUpdate(st, before, after, created) ==
    LET promoted == {i \in 1..Len(before) :
                        before[i].phase = TENTATIVE /\ after[i].phase = CONFIRMED}
    IN  [st EXCEPT !.tracks_created = st.tracks_created + created,
                   !.tracks_confirmed = st.tracks_confirmed + Cardinality(promoted)]

\* TrackerStatistics after update_track_recognition marked a track
StatsAfterMark(st, status) ==
    [st EXCEPT !.tracks_recognized = st.tracks_recognized + 1,
               !.authorized_count = IF status = "AUTHORIZED"
                                    THEN st.authorized_count + 1 ELSE st.authorized_count,
               !.wanted_count = IF status = "WANTED"
                                THEN st.wanted_count + 1 ELSE st.wanted_count,
               !.unknown_count = IF status \notin {"AUTHORIZED", "WANTED"}
                                 THEN st.unknown_count + 1 ELSE st.unknown_count]

\* An update_track_recognition that accepts a mark for any track it finds
MarkAcceptedNoGuard(trks, track_id) == HasTrack(trks, track_id)

\* update_track_recognition returns True
MarkAccepted(trks, track_id) ==
    HasTrack(trks, track_id) /\ ~GetTrack(trks, track_id).recognized

\* update_track_recognition: the track list and the statistics it leaves,
\* and what it returns
UpdateTrackRecognition(trks, st, track_id, face_id, status, confidence) ==
    IF MarkAccepted(trks, track_id)
    THEN [tracks |-> [trks EXCEPT ![TrackIndex(trks, track_id)] =
                        MarkRecognized(trks[TrackIndex(trks, track_id)],
                                       face_id, status, confidence)],
          stats |-> StatsAfterMark(st, status),
          ret |-> TRUE]
    ELSE [tracks |-> trks, stats |-> st, ret |-> FALSE]

\* record_recognition_attempt: the track list it leaves
RecordRecognitionAttempt(trks, track_id) ==
    IF HasTrack(trks, track_id)
    THEN [trks EXCEPT ![TrackIndex(trks, track_id)].recognition_attempts = @ + 1]
    ELSE trks

\* History: the phase trail of every track, after a step that left the track
\* list trks and the next id nid (the trail of a removed track is dropped)
TrailAfter(tr, trks, nid) ==
    [id \in 1..(nid - 1) |->
        IF ~HasTrack(trks, id) THEN <<>>
        ELSE IF id > Len(tr) THEN <<TENTATIVE>>
        ELSE IF GetTrack(trks, id).phase # tr[id][Len(tr[id])]
        THEN Append(tr[id], GetTrack(trks, id).phase)
        ELSE tr[id]]

\* History: the count of accepted marks of every track, after a step (the
\* count of a removed track is dropped)
MarksAfter(mk, trks, nid, track_id, accepted) ==
    [id \in 1..(nid - 1) |->
        IF ~HasTrack(trks, id) \/ id > Len(mk) THEN 0
        ELSE IF id = track_id /\ accepted THEN mk[id] + 1 ELSE mk[id]]

\* update(detections) with the assignment a the solver returned: the new
\* track list, next id and statistics
\* update: the Track objects _remove_dead_tracks drops from the list
RemovedTracks(trks, dets, a, p) ==
    LET aged == Predict(trks)
        last == IF dets = <<>> THEN aged ELSE ProcessMatches(aged, dets, a, p)
    IN  {last[i] : i \in {j \in 1..Len(last) : ~Survives(last[j], p)}}

UpdateResult(trks, nid, st, dets, a, p) ==
    LET aged == Predict(trks)
        matched == ProcessMatches(aged, dets, a, p)
        created == CreateTracks(dets, MatchedDets(aged, dets, a, p), 1, nid)
    IN  IF dets = <<>>
        THEN [tracks |-> RemoveDeadTracks(aged, p), next_id |-> nid, stats |-> st]
        ELSE [tracks |-> RemoveDeadTracks(matched \o created, p),
              next_id |-> nid + Len(created),
              stats |-> StatsAfterUpdate(st, aged, matched, Len(created))]

----------------------------------------------------------------------------
(* The gate controller: gate-node/core/gate_control.py *)

\* GateDecision
AUTHORIZED == "AUTHORIZED"
WANTED == "WANTED"
UNKNOWN == "UNKNOWN"
GateDecisions == {AUTHORIZED, WANTED, UNKNOWN}

\* A threading.Timer is waiting (started, its interval running), cancelled
\* (cancel() came before its interval ended), firing (its interval ended and
\* its thread is calling _auto_close, which waits for the lock) or done.
TimerStates == {"waiting", "cancelled", "firing", "done"}

\* Timer.cancel(): it stops a timer that is still waiting, and does nothing
\* to one whose function was already called
TimerCancel(tms, k) ==
    IF k # 0 /\ tms[k] = "waiting" THEN [tms EXCEPT ![k] = "cancelled"] ELSE tms

\* The statistics open_gate keeps
StatsAfterOpen(gs, decision) ==
    [gs EXCEPT !.total_opens = gs.total_opens + 1,
               !.authorized_opens = IF decision = AUTHORIZED
                                    THEN gs.authorized_opens + 1 ELSE gs.authorized_opens,
               !.wanted_opens = IF decision = WANTED
                                THEN gs.wanted_opens + 1 ELSE gs.wanted_opens]

\* An open_gate that cancels the pending close timer and starts none
TimersAfterOpenNoRestart(tms, ct) == TimerCancel(tms, ct)

\* The timers after open_gate: the pending close timer is cancelled and a
\* new one is started, whether the gate was open (extend) or closed
TimersAfterOpen(tms, ct) == Append(TimerCancel(tms, ct), "waiting")

\* open_gate(decision, ...), under the controller's lock
OpenGate(decision) ==
    /\ gate_stats' = StatsAfterOpen(gate_stats, decision)
    /\ timers' = TimersAfterOpen(timers, close_timer)
    /\ close_timer' = Len(timers')
    /\ relay' = "on"
    /\ gate_is_open' = TRUE
    /\ extends' = IF gate_is_open THEN extends \cup {Len(timers')} ELSE extends

\* close_gate(), under the controller's lock
CloseGate ==
    /\ timers' = TimerCancel(timers, close_timer)
    /\ close_timer' = 0
    /\ relay' = "off"
    /\ gate_is_open' = FALSE
    /\ UNCHANGED <<gate_stats, extends>>

\* The interval of timer k ends: its thread goes on to call _auto_close.
\* Timers run the same interval, so they end in the order they were started.
TimerExpire(k) ==
    /\ timers[k] = "waiting"
    /\ \A j \in 1..(k - 1) : timers[j] # "waiting"
    /\ timers' = [timers EXCEPT ![k] = "firing"]
    /\ UNCHANGED <<gate_is_open, relay, close_timer, gate_stats, extends>>

\* What _auto_close leaves in _close_timer
CloseTimerAfterAutoClose(ct, k) == 0

\* _auto_close, called by timer k, under the controller's lock
AutoClose(k) ==
    /\ timers[k] = "firing"
    /\ timers' = [timers EXCEPT ![k] = "done"]
    /\ relay' = "off"
    /\ gate_is_open' = FALSE
    /\ close_timer' = CloseTimerAfterAutoClose(close_timer, k)
    /\ UNCHANGED <<gate_stats, extends>>

\* GateController.state
GateState == IF gate_is_open THEN "OPEN" ELSE "CLOSED"

\* cleanup(): the close timer is cancelled and, with GPIO in use,
\* GPIO.cleanup(relay_pin) makes the pin an input again (no level is driven)
GateCleanup ==
    /\ ~cleaned
    /\ timers' = TimerCancel(timers, close_timer)
    /\ relay' = IF gpio_enabled THEN "input" ELSE relay
    /\ cleaned' = TRUE
    /\ UNCHANGED <<gate_is_open, close_timer, gate_stats, extends, gpio_enabled>>

\* GateController.__init__: open_duration and cooldown, in seconds
OpenDuration == 5
GateCooldown == 2

\* No open_gate call made yet
NoOpenCall == [made |-> FALSE, was_open |-> FALSE, elapsed |-> 0, counted |-> 0]

\* open_gate(decision, ...) at the time gate_clock: _last_open_time is set to
\* now on both paths, and self.cooldown is not read
OpenGateAt(decision) ==
    /\ OpenGate(decision)
    /\ last_open_time' = gate_clock
    /\ open_call' = [made |-> TRUE, was_open |-> gate_is_open,
                     elapsed |-> gate_clock - last_open_time,
                     counted |-> gate_stats'.total_opens - gate_stats.total_opens]
    /\ UNCHANGED gate_clock

\* The interval of the close timer (open_duration after the open_gate call
\* that started it) has passed: the timer's thread runs
TimerStepAt ==
    /\ gate_clock >= last_open_time + OpenDuration
    /\ \/ \E k \in 1..Len(timers) : TimerExpire(k)
       \/ \E k \in 1..Len(timers) : AutoClose(k)
    /\ UNCHANGED <<gate_clock, last_open_time, open_call>>

\* A second passes
GateTick ==
    /\ gate_clock < MaxGateClock
    /\ gate_clock' = gate_clock + 1
    /\ UNCHANGED <<last_open_time, open_call>>

InitCooldownState ==
    /\ gate_clock = 0
    /\ last_open_time = 0
    /\ open_call = NoOpenCall

InitShutdownState ==
    /\ gpio_enabled = FALSE
    /\ cleaned = FALSE

InitGateState ==
    /\ gate_is_open = FALSE
    /\ relay = "off"
    /\ close_timer = 0
    /\ gate_stats = [total_opens |-> 0, authorized_opens |-> 0, wanted_opens |-> 0,
                     rejected_unknown |-> 0]
    /\ timers = <<>>
    /\ extends = {}

----------------------------------------------------------------------------
(* The node: main.py, GateNode.run and GateNode._recognize_track *)

\* ThreadPoolExecutor(max_workers=2)
MaxWorkers == 2

\* config.MAX_RECOGNITION_ATTEMPTS
MaxRecognitionAttempts == 3

\* config.RECOGNITION_THRESHOLD and config.WANTED_CONFIDENCE_THRESHOLD, the
\* thresholds main.py gives the DecisionEngine
ConfidenceThreshold == 50
WantedConfidenceThreshold == 70

\* FaceDatabase.search: the default threshold, the largest cosine distance
\* of a match
SearchThreshold == 50

\* How far a detection's centre may be from a recognized track's for main.py
\* to compute its embedding, in pixels
NearPixels == 100

\* The people enrolled in the face database, and their records
Enrolled == {PersonA, PersonB}
FaceOf(p) ==
    IF p = PersonA THEN [face_id |-> "F1", status |-> AUTHORIZED]
    ELSE [face_id |-> "F2", status |-> WANTED]

\* A face in a frame
Face(p, box) == [person |-> p, bbox |-> box, landmarks |-> box]

\* The frames the camera delivers, as the faces the detector finds in them:
\* A in front of the gate, B in front of the gate, A in front of the gate
\* with B elsewhere
Scenes ==
    {<<Face(PersonA, BoxL)>>, <<Face(PersonB, BoxL)>>,
     <<Face(PersonA, BoxL), Face(PersonB, BoxR)>>}

\* Cosine distances from a probe to the nearest record of the database that
\* a search may measure
SearchDistances == {20, 40, 60}

\* get_all_active_tracks
GetAllActiveTracks(trks) ==
    SelectSeq(trks, LAMBDA t : t.phase \in {CONFIRMED, RECOGNIZED})

\* run: the detection is near a recognized active track (centres less than
\* 100 pixels apart on both axes; twice the centres are compared)
NearRecognized(box, trks) ==
    LET active == GetAllActiveTracks(trks)
        Abs(x) == IF x < 0 THEN -x ELSE x
    IN  \E i \in 1..Len(active) :
           /\ active[i].recognized
           /\ Abs((box[1] + box[3]) - (active[i].bbox[1] + active[i].bbox[3])) < 2 * NearPixels
           /\ Abs((box[2] + box[4]) - (active[i].bbox[2] + active[i].bbox[4])) < 2 * NearPixels

\* run: tracker_detections, the detections with the embeddings computed for
\* swap detection
TrackerDetections(frame, trks) ==
    [i \in 1..Len(frame) |->
        [bbox |-> frame[i].bbox,
         emb |-> IF NearRecognized(frame[i].bbox, trks) /\ frame[i].landmarks # NoLandmarks
                 THEN frame[i].person ELSE None,
         landmarks |-> frame[i].landmarks]]

\* The status strings make_decision is tried with: a record's status as the
\* backend sent it
Statuses == {"AUTHORIZED", "WANTED", "UNKNOWN", "authorized", "Wanted", "VISITOR"}

\* str.upper() on a status string
Upper(status) ==
    CASE status = "authorized" -> "AUTHORIZED"
      [] status = "Wanted" -> "WANTED"
      [] OTHER -> status

\* A DecisionEngine that holds WANTED matches to the authorised threshold
MakeDecisionOneThreshold(e, match_found, confidence, status) ==
    IF ~match_found THEN UNKNOWN
    ELSE IF Upper(status) = "WANTED"
    THEN IF confidence >= e.confidence_threshold THEN WANTED ELSE UNKNOWN
    ELSE IF Upper(status) = "AUTHORIZED"
    THEN IF confidence >= e.confidence_threshold THEN AUTHORIZED ELSE UNKNOWN
    ELSE UNKNOWN

\* DecisionEngine.make_decision of the engine e
MakeDecisionOf(e, match_found, confidence, status) ==
    IF ~match_found THEN UNKNOWN
    ELSE IF Upper(status) = "WANTED"
    THEN IF confidence >= e.wanted_confidence_threshold THEN WANTED ELSE UNKNOWN
    ELSE IF Upper(status) = "AUTHORIZED"
    THEN IF confidence >= e.confidence_threshold THEN AUTHORIZED ELSE UNKNOWN
    ELSE UNKNOWN

\* The DecisionEngine main.py constructs from the configuration
ConfiguredEngine ==
    [confidence_threshold |-> ConfidenceThreshold,
     wanted_confidence_threshold |-> WantedConfidenceThreshold]

\* The DecisionEngine of the constructor's defaults
DefaultEngine == [confidence_threshold |-> 60, wanted_confidence_threshold |-> 50]

\* DecisionEngine.make_decision as the gate node calls it
MakeDecision(match_found, confidence, status) ==
    MakeDecisionOf(ConfiguredEngine, match_found, confidence, status)

\* No make_decision call made yet
NoCall == [match_found |-> FALSE, confidence |-> 0, status |-> "None", ret |-> "None"]

\* engine.make_decision(match_found, confidence = confidence, status = status)
Decide(match_found, confidence, status) ==
    /\ decided' = [match_found |-> match_found, confidence |-> confidence, status |-> status,
                   ret |-> MakeDecisionOf(engine, match_found, confidence, status)]
    /\ UNCHANGED engine

\* _recognize_track: whose face the frame copy shows where the track is (at
\* its landmarks, at its box when it has none), or None for nobody's
CropPerson(frame, t) ==
    LET at == IF t.landmarks # NoLandmarks THEN t.landmarks ELSE t.bbox
        hit == {i \in 1..Len(frame) : ComputeIou(frame[i].bbox, at) > 0}
    IN  IF hit = {} THEN None ELSE frame[CHOOSE i \in hit : TRUE].person

\* FaceDatabase.search(embedding, k=1) for the face of p, the nearest record
\* being at distance d: the matches within the threshold
Search(p, d) ==
    IF p \in Enrolled /\ d <= SearchThreshold
    THEN <<[person_id |-> FaceOf(p).face_id, distance |-> d, status |-> FaceOf(p).status]>>
    ELSE <<>>

\* A recognition thread that has no task
IdleWorker ==
    [pc |-> "idle", track_id |-> 0, face_id |-> None, status |-> None,
     confidence |-> 0, decision |-> None]

\* _recognize_track up to the search, for a crop that shows p: the thread
\* with the result it goes on with.  The aligned face is empty or there is
\* no embedding (return False), a call raises (except), or the search runs
\* and finds a match or none.
RecognitionOutcomes(track_id, p) ==
    {[IdleWorker EXCEPT !.pc = "finally", !.track_id = track_id],
     [IdleWorker EXCEPT !.pc = "except", !.track_id = track_id]}
    \cup {IF Search(p, d) # <<>>
          THEN LET res == Search(p, d)[1]
                   confidence == 100 - res.distance
                   decision == MakeDecision(TRUE, confidence, res.status)
               IN  [pc |-> "mark", track_id |-> track_id, face_id |-> res.person_id,
                    status |-> decision, confidence |-> confidence,
                    decision |-> decision]
          ELSE [IdleWorker EXCEPT !.pc = "attempt", !.track_id = track_id]
          : d \in SearchDistances}

\* History: the open_gate calls per track, after a step that left the next
\* id nid and made n calls for track_id
OpenedAfter(op, nid, track_id, n) ==
    [id \in 1..(nid - 1) |->
        (IF id > Len(op) THEN 0 ELSE op[id]) + (IF id = track_id THEN n ELSE 0)]

\* The Track objects out of the tracker's list that tasks still hold, after
\* an update dropped the objects in removed
LostAfter(lst, removed, pnd) == lst \cup {t \in removed : t.track_id \in pnd}

\* The Track object a task holds: the one in the tracker's list while the
\* track lives, the dropped object afterwards
TrackObject(trks, lst, track_id) ==
    IF HasTrack(trks, track_id) THEN GetTrack(trks, track_id)
    ELSE CHOOSE t \in lst : t.track_id = track_id

InitNodeState ==
    /\ main_pc = "frame"
    /\ cur_frame = <<>>
    /\ todo = <<>>
    /\ pending = {}
    /\ task_queue = <<>>
    /\ workers = [w \in 1..MaxWorkers |-> IdleWorker]
    /\ opened = <<>>
    /\ lost = {}
    /\ access_events = <<>>

\* run: a frame arrives, its detections get their embeddings and go to
\* tracker.update
MainUpdate(frame) ==
    /\ main_pc = "frame"
    /\ frames < NodeFrames
    /\ LET dets == TrackerDetections(frame, tracks)
       IN  \E a \in HungarianAssignments(dets, Predict(tracks), params) :
              LET r == UpdateResult(tracks, next_id, stats, dets, a, params)
              IN  /\ tracks' = r.tracks
                  /\ next_id' = r.next_id
                  /\ stats' = r.stats
                  /\ trail' = TrailAfter(trail, r.tracks, r.next_id)
                  /\ marks' = MarksAfter(marks, r.tracks, r.next_id, 0, FALSE)
                  /\ opened' = OpenedAfter(opened, r.next_id, 0, 0)
                  /\ lost' = LostAfter(lost, RemovedTracks(tracks, dets, a, params), pending)
    /\ frames' = frames + 1
    /\ cur_frame' = frame
    /\ main_pc' = "list"
    /\ UNCHANGED <<params, todo, pending, task_queue, workers>>
    /\ UNCHANGED gateVars
    /\ UNCHANGED access_events

\* run: tracks_to_recognize = tracker.get_tracks_for_recognition(); with
\* nothing to recognize the loop goes on to the next frame
MainList ==
    /\ main_pc = "list"
    /\ todo' = GetTracksForRecognition(tracks)
    /\ main_pc' = IF todo' = <<>> THEN "frame" ELSE "loop"
    /\ UNCHANGED <<cur_frame, pending, task_queue, workers, opened, lost>>
    /\ UNCHANGED <<trackerVars, gateVars>>
    /\ UNCHANGED access_events

\* _is_track_pending_recognition
IsTrackPendingRecognition(pnd, track_id) == track_id \in pnd

\* run: the loop over tracks_to_recognize finds the next track pending and
\* skips it
MainSkip ==
    /\ main_pc = "loop"
    /\ IsTrackPendingRecognition(pending, Head(todo))
    /\ todo' = Tail(todo)
    /\ main_pc' = IF todo' = <<>> THEN "frame" ELSE "loop"
    /\ UNCHANGED <<cur_frame, pending, task_queue, workers, opened, lost>>
    /\ UNCHANGED <<trackerVars, gateVars>>
    /\ UNCHANGED access_events

\* A _submit_recognition that leaves the pending set as it was
PendingAfterSubmitForgets(pnd, track_id) == pnd

\* _submit_recognition: the pending set after the track id went in
PendingAfterSubmit(pnd, track_id) == pnd \cup {track_id}

\* run: the loop over tracks_to_recognize finds the next track not pending
\* and calls _submit_recognition(track, frame): under the recognition lock
\* the track id goes into the pending set unless it is there; then the task,
\* with the Track object and a copy of the frame, goes to the executor.
\* (Only this thread adds to the pending set, so what the loop found holds
\* when the lock is taken.)
MainSubmit ==
    /\ main_pc = "loop"
    /\ ~IsTrackPendingRecognition(pending, Head(todo))
    /\ IF Head(todo) \in pending
       THEN UNCHANGED <<pending, task_queue>>
       ELSE /\ pending' = PendingAfterSubmit(pending, Head(todo))
            /\ task_queue' = Append(task_queue,
                                    [track_id |-> Head(todo), frame |-> cur_frame])
    /\ todo' = Tail(todo)
    /\ main_pc' = IF todo' = <<>> THEN "frame" ELSE "loop"
    /\ UNCHANGED <<cur_frame, workers, opened, lost>>
    /\ UNCHANGED <<trackerVars, gateVars>>
    /\ UNCHANGED access_events

\* A thread of the executor takes the oldest task and runs _recognize_track
\* up to the search: it reads the track's box and landmarks, crops the frame
\* copy, embeds and searches.  (Idle threads are interchangeable: the first
\* takes the task.)
WorkerStart(w) ==
    /\ workers[w].pc = "idle"
    /\ \A v \in 1..(w - 1) : workers[v].pc # "idle"
    /\ task_queue # <<>>
    /\ LET task == Head(task_queue)
           p == CropPerson(task.frame, TrackObject(tracks, lost, task.track_id))
       IN  \E o \in RecognitionOutcomes(task.track_id, p) :
              workers' = [workers EXCEPT ![w] = o]
    /\ task_queue' = Tail(task_queue)
    /\ UNCHANGED <<main_pc, cur_frame, todo, pending, opened, lost>>
    /\ UNCHANGED <<trackerVars, gateVars>>
    /\ UNCHANGED access_events

\* _recognize_track: tracker.update_track_recognition with the result (what
\* it returns is not looked at)
WorkerMark(w) ==
    /\ workers[w].pc = "mark"
    /\ LET r == UpdateTrackRecognition(tracks, stats, workers[w].track_id,
                                       workers[w].face_id, workers[w].status,
                                       workers[w].confidence)
       IN  /\ tracks' = r.tracks
           /\ stats' = r.stats
           /\ trail' = TrailAfter(trail, r.tracks, next_id)
           /\ marks' = MarksAfter(marks, r.tracks, next_id, workers[w].track_id, r.ret)
    /\ workers' = [workers EXCEPT ![w].pc = "open"]
    /\ UNCHANGED <<params, next_id, frames>>
    /\ UNCHANGED <<main_pc, cur_frame, todo, pending, task_queue, opened, lost>>
    /\ UNCHANGED gateVars
    /\ UNCHANGED access_events

\* _recognize_track: gate_controller.open_gate(decision=decision, ...)
WorkerOpen(w) ==
    /\ workers[w].pc = "open"
    /\ OpenGate(workers[w].decision)
    /\ opened' = OpenedAfter(opened, next_id, workers[w].track_id, 1)
    /\ workers' = [workers EXCEPT ![w].pc = "log"]
    /\ UNCHANGED <<main_pc, cur_frame, todo, pending, task_queue, lost>>
    /\ UNCHANGED trackerVars
    /\ UNCHANGED access_events

\* AccessLogger.log_access: its parameters, and those without a default
LogAccessParameters ==
    {"gate_id", "track_id", "status", "decision", "confidence", "face_id", "user_id",
     "name", "frame", "bbox"}
LogAccessRequired == {"gate_id", "track_id", "status", "decision", "confidence"}

\* A call with the keyword arguments kw binds to log_access's parameters;
\* otherwise Python raises TypeError before the body runs
LogAccessBinds(kw) ==
    DOMAIN kw \subseteq LogAccessParameters /\ LogAccessRequired \subseteq DOMAIN kw

\* AccessLogger.log_access(**kw): the table after the INSERT
LogAccess(rows, kw) ==
    Append(rows, [track_id |-> kw.track_id, status |-> kw.status, decision |-> kw.decision,
                  synced |-> FALSE])

\* The keyword arguments _recognize_track calls log_access with
RecognizeTrackLogArguments(worker) ==
    [person_id |-> worker.face_id, person_name |-> worker.face_id,
     status |-> worker.status, confidence |-> worker.confidence, gate_id |-> "gate"]

\* _recognize_track: access_logger.log_access(person_id=..., person_name=...,
\* ...); when the arguments do not bind, the TypeError goes to the except
\* clause, which calls tracker.record_recognition_attempt
WorkerLog(w) ==
    /\ workers[w].pc = "log"
    /\ LET kw == RecognizeTrackLogArguments(workers[w])
       IN  IF LogAccessBinds(kw)
           THEN /\ access_events' = LogAccess(access_events, kw)
                /\ tracks' = tracks
           ELSE /\ access_events' = access_events
                /\ tracks' = RecordRecognitionAttempt(tracks, workers[w].track_id)
    /\ workers' = [workers EXCEPT ![w].pc = "finally"]
    /\ UNCHANGED <<params, next_id, stats, frames, trail, marks>>
    /\ UNCHANGED <<main_pc, cur_frame, todo, pending, task_queue, opened, lost>>
    /\ UNCHANGED gateVars

\* _recognize_track, no match: tracker.record_recognition_attempt
WorkerAttempt(w) ==
    /\ workers[w].pc = "attempt"
    /\ tracks' = RecordRecognitionAttempt(tracks, workers[w].track_id)
    /\ workers' = [workers EXCEPT ![w].pc = "checkmax"]
    /\ UNCHANGED <<params, next_id, stats, frames, trail, marks>>
    /\ UNCHANGED <<main_pc, cur_frame, todo, pending, task_queue, opened, lost>>
    /\ UNCHANGED gateVars
    /\ UNCHANGED access_events

\* _recognize_track, no match: the track that used up its attempts is marked
\* UNKNOWN
WorkerCheckMax(w) ==
    /\ workers[w].pc = "checkmax"
    /\ LET t == TrackObject(tracks, lost, workers[w].track_id)
           r == IF t.recognition_attempts >= MaxRecognitionAttempts
                THEN UpdateTrackRecognition(tracks, stats, t.track_id, None, UNKNOWN, 0)
                ELSE [tracks |-> tracks, stats |-> stats, ret |-> FALSE]
       IN  /\ tracks' = r.tracks
           /\ stats' = r.stats
           /\ trail' = TrailAfter(trail, r.tracks, next_id)
           /\ marks' = MarksAfter(marks, r.tracks, next_id, t.track_id, r.ret)
    /\ workers' = [workers EXCEPT ![w].pc = "finally"]
    /\ UNCHANGED <<params, next_id, frames>>
    /\ UNCHANGED <<main_pc, cur_frame, todo, pending, task_queue, opened, lost>>
    /\ UNCHANGED gateVars
    /\ UNCHANGED access_events

\* _recognize_track, a call raised: the except clause calls
\* tracker.record_recognition_attempt and nothing else
WorkerExcept(w) ==
    /\ workers[w].pc = "except"
    /\ tracks' = RecordRecognitionAttempt(tracks, workers[w].track_id)
    /\ workers' = [workers EXCEPT ![w].pc = "finally"]
    /\ UNCHANGED <<params, next_id, stats, frames, trail, marks>>
    /\ UNCHANGED <<main_pc, cur_frame, todo, pending, task_queue, opened, lost>>
    /\ UNCHANGED gateVars
    /\ UNCHANGED access_events

\* _recognize_track, finally: the track id leaves the pending set, under the
\* recognition lock, and the thread is free again
WorkerFinally(w) ==
    /\ workers[w].pc = "finally"
    /\ pending' = pending \ {workers[w].track_id}
    /\ workers' = [workers EXCEPT ![w] = IdleWorker]
    /\ lost' = {t \in lost : t.track_id # workers[w].track_id}
    /\ UNCHANGED <<main_pc, cur_frame, todo, task_queue, opened>>
    /\ UNCHANGED <<trackerVars, gateVars>>
    /\ UNCHANGED access_events

----------------------------------------------------------------------------
(* update_track_recognition statement by statement                         *)
(* (gate-node/vision/tracker.py): the tracker has no lock, so a thread in  *)
(* it runs against the main thread's update                                *)

\* No thread is inside update_track_recognition
IdleMarker ==
    [pc |-> "idle", track_id |-> 0, face_id |-> None, status |-> None, confidence |-> 0]

InitRaceState == marker = IdleMarker

\* The place in the track list of the Track object a thread holds, 0 for an
\* object that update has dropped from the list
HeldIndex(trks, track_id) ==
    IF HasTrack(trks, track_id) THEN TrackIndex(trks, track_id) ELSE 0

\* update_track_recognition: get_track finds the track and it is not
\* recognized, so the call goes on to track.mark_recognized
MarkEnter(track_id, res) ==
    /\ marker.pc = "idle"
    /\ MarkAccepted(tracks, track_id)
    /\ marker' = [pc |-> "recognized", track_id |-> track_id, face_id |-> res.face_id,
                  status |-> res.status, confidence |-> res.confidence]
    /\ UNCHANGED trackerVars

\* mark_recognized: self.recognized = True
MarkSetRecognized ==
    /\ marker.pc = "recognized"
    /\ tracks' = [i \in 1..Len(tracks) |->
                     IF i = HeldIndex(tracks, marker.track_id)
                     THEN [tracks[i] EXCEPT !.recognized = TRUE]
                     ELSE tracks[i]]
    /\ marker' = [marker EXCEPT !.pc = "phase"]
    /\ UNCHANGED <<params, next_id, stats, frames, trail, marks>>

\* mark_recognized: self.phase = TrackPhase.RECOGNIZED
MarkSetPhase ==
    /\ marker.pc = "phase"
    /\ tracks' = [i \in 1..Len(tracks) |->
                     IF i = HeldIndex(tracks, marker.track_id)
                     THEN [tracks[i] EXCEPT !.phase = RECOGNIZED]
                     ELSE tracks[i]]
    /\ trail' = TrailAfter(trail, tracks', next_id)
    /\ marker' = [marker EXCEPT !.pc = "identity"]
    /\ UNCHANGED <<params, next_id, stats, frames, marks>>

\* mark_recognized: face_id, user_id, name, status and confidence
MarkSetIdentity ==
    /\ marker.pc = "identity"
    /\ tracks' = [i \in 1..Len(tracks) |->
                     IF i = HeldIndex(tracks, marker.track_id)
                     THEN [tracks[i] EXCEPT !.face_id = marker.face_id,
                                            !.status = marker.status,
                                            !.confidence = marker.confidence]
                     ELSE tracks[i]]
    /\ marker' = [marker EXCEPT !.pc = "stats"]
    /\ UNCHANGED <<params, next_id, stats, frames, trail, marks>>

\* update_track_recognition: the statistics, and return True
MarkCount ==
    /\ marker.pc = "stats"
    /\ stats' = StatsAfterMark(stats, marker.status)
    /\ marks' = MarksAfter(marks, tracks, next_id, marker.track_id, TRUE)
    /\ marker' = IdleMarker
    /\ UNCHANGED <<params, tracks, next_id, frames, trail>>

----------------------------------------------------------------------------
(* The face database (gate-node/storage/face_db.py) and the thread that    *)
(* syncs it from the backend (gate-node/threads/sync.py)                   *)

\* A value of FaceDatabase._current_version: a Python int or a Python str
IntV(n) == [type |-> "int", num |-> n, text |-> ""]
StrV(t) == [type |-> "str", num |-> 0, text |-> t]

\* A dict with no key, a file with no byte
Empty == <<>>

\* FaceDatabase.__init__ before _load: the fields of a new object
NewFaceDatabase ==
    [metadata |-> Empty, face_id_to_idx |-> Empty, next_idx |-> 0,
     index |-> Empty, current_version |-> IntV(0)]

\* A file of the database: absent, cut short, or complete with its content
AbsentFile(none) == [state |-> "absent", content |-> none]
PartialFile(none) == [state |-> "partial", content |-> none]
CompleteFile(content) == [state |-> "complete", content |-> content]

\* What the metadata file holds for a database with no record
NoMetadata == [metadata |-> Empty, face_id_to_idx |-> Empty, next_idx |-> 0]

\* The data directory before the first save
NoFiles ==
    [metadata |-> AbsentFile(NoMetadata), index |-> AbsentFile(Empty),
     version |-> AbsentFile("")]

\* Face embeddings: two photographs of Ann, one of Bob, one of Cy
EmbA1 == "a1"
EmbA2 == "a2"
EmbB1 == "b1"
EmbC1 == "c1"
Embeddings == {EmbA1, EmbA2, EmbB1, EmbC1}

\* Cosine distance of two unit embeddings, in hundredths: 0.3 between the
\* two photographs of Ann, 0.8 between different people
CosDist(x, y) ==
    IF x = y THEN 0
    ELSE IF {x, y} = {EmbA1, EmbA2} THEN 30
    ELSE 80

\* A face record as the backend sends it and add_face takes it
Item(id, person_id, full_name, status, embedding) ==
    [id |-> id, person_id |-> person_id, full_name |-> full_name,
     status |-> status, embedding |-> embedding]

ItemF1 == Item("F1", "U1", "Ann", AUTHORIZED, EmbA1)
ItemF2 == Item("F2", "U2", "Bob", AUTHORIZED, EmbB1)
ItemF3 == Item("F3", "U3", "Cy", WANTED, EmbC1)
ItemF4 == Item("F4", "U1", "Ann", AUTHORIZED, EmbA2)
\* Bob's record after the backend changed his status
ItemF2Updated == Item("F2", "U2", "Bob", WANTED, EmbB1)

FaceIds == {"F1", "F2", "F3", "F4"}

\* A dict without the keys in gone
Without(f, gone) == [x \in (DOMAIN f) \ gone |-> f[x]]

\* An add_face that takes every face for a new one
AddFaceAlwaysNew(db, item) ==
    [db EXCEPT !.next_idx = db.next_idx + 1,
               !.metadata = (db.next_idx :> [face_id |-> item.id, user_id |-> item.person_id,
                                             name |-> item.full_name, status |-> item.status])
                            @@ db.metadata,
               !.face_id_to_idx = (item.id :> db.next_idx) @@ db.face_id_to_idx,
               !.index = (db.next_idx :> item.embedding) @@ db.index]

\* add_face: the database it leaves.  A face id the database has gets new
\* metadata and keeps its embedding; a new one gets the next index, its
\* metadata and its embedding in the index.
AddFace(db, item) ==
    LET meta == [face_id |-> item.id, user_id |-> item.person_id,
                 name |-> item.full_name, status |-> item.status]
    IN  IF item.id \in DOMAIN db.face_id_to_idx
        THEN LET idx == db.face_id_to_idx[item.id]
             IN  [db EXCEPT !.metadata = (idx :> meta) @@ db.metadata]
        ELSE LET idx == db.next_idx
             IN  [db EXCEPT !.next_idx = idx + 1,
                            !.metadata = (idx :> meta) @@ db.metadata,
                            !.face_id_to_idx = (item.id :> idx) @@ db.face_id_to_idx,
                            !.index = (idx :> item.embedding) @@ db.index]

\* A remove_face that removes nothing
RemoveFaceKeepsAll(db, face_id) == db

\* remove_face: the database it leaves.  The metadata and the id go; the
\* embedding stays in the index.
RemoveFace(db, face_id) ==
    IF face_id \notin DOMAIN db.face_id_to_idx
    THEN db
    ELSE LET idx == db.face_id_to_idx[face_id]
         IN  [db EXCEPT !.metadata = Without(db.metadata, {idx}),
                        !.face_id_to_idx = Without(db.face_id_to_idx, {face_id})]

\* count
Count(db) == Cardinality(DOMAIN db.metadata)

\* get_version
GetVersion(db) == db.current_version

\* index.knn_query(query, k): the labels of the k nearest vectors of the
\* index, nearest first; vectors at the same distance come in any order
KnnQuery(index, query, k) ==
    {labels \in [1..k -> DOMAIN index] :
        /\ \A i, j \in 1..k : i < j =>
              /\ labels[i] # labels[j]
              /\ CosDist(index[labels[i]], query) <= CosDist(index[labels[j]], query)
        /\ \A l \in DOMAIN index :
              (\A i \in 1..k : labels[i] # l) =>
                 \A i \in 1..k : CosDist(index[labels[i]], query) <= CosDist(index[l], query)}

\* search keeps of the labels those that have metadata and lie within the
\* threshold
SearchHits(db, labels, query, threshold) ==
    LET kept == SelectSeq(labels,
                    LAMBDA l : l \in DOMAIN db.metadata
                               /\ CosDist(db.index[l], query) <= threshold)
    IN  [i \in 1..Len(kept) |->
            [face_id |-> db.metadata[kept[i]].face_id,
             distance |-> CosDist(db.index[kept[i]], query),
             metadata |-> [face_id |-> db.metadata[kept[i]].face_id,
                           user_id |-> db.metadata[kept[i]].user_id,
                           full_name |-> db.metadata[kept[i]].name,
                           status |-> db.metadata[kept[i]].status]]]

\* search(embedding, threshold, k): the result lists it may return
DbSearch(db, query, threshold, k) ==
    IF DOMAIN db.metadata = {} THEN {<<>>}
    ELSE IF DOMAIN db.index # {}
    THEN {SearchHits(db, labels, query, threshold) :
             labels \in KnnQuery(db.index, query,
                                 Min2(k, Cardinality(DOMAIN db.index)))}
    ELSE {<<>>}

\* Versions the backend sends: ISO-8601 timestamps
V1 == "2026-01-08T10:00:00"
V2 == "2026-01-09T10:00:00"
V3 == "2026-01-10T10:00:00"

\* The decimal digits: Digits[n + 1] is str(n) for an int n below ten
Digits == <<"0", "1", "2", "3", "4", "5", "6", "7", "8", "9">>

\* str(version) as _save writes it
Str(v) == IF v.type = "int" THEN Digits[v.num + 1] ELSE v.text

\* int(text) as _load reads it succeeds
IntParses(text) == \E n \in 0..9 : Digits[n + 1] = text

\* int(text)
ParseInt(text) == CHOOSE n \in 0..9 : Digits[n + 1] = text

\* Where a thread stands in the database: in no call, in _save at a file
\* (about to open it, or about to write it), or nowhere because the
\* process died
Ready == [at |-> "ready", file |-> "", stage |-> ""]
Crashed == [at |-> "crashed", file |-> "", stage |-> ""]
Saving(file, stage) == [at |-> "save", file |-> file, stage |-> stage]

\* _save: what it writes to a file
SavedContent(db, file) ==
    IF file = "metadata"
    THEN [metadata |-> db.metadata, face_id_to_idx |-> db.face_id_to_idx,
          next_idx |-> db.next_idx]
    ELSE IF file = "index" THEN db.index
    ELSE Str(db.current_version)

\* _save: what an opened file holds before the first write reaches it
TruncatedContent(file) ==
    IF file = "metadata" THEN NoMetadata
    ELSE IF file = "index" THEN Empty
    ELSE ""

\* _save: where it goes after a file.  The index is saved only if it holds
\* a vector.
AfterFile(db, file) ==
    IF file = "metadata"
    THEN IF DOMAIN db.index # {} THEN Saving("index", "open") ELSE Saving("version", "open")
    ELSE IF file = "index" THEN Saving("version", "open")
    ELSE Ready

\* _load: the fields of a new FaceDatabase over the files.  A file that is
\* missing or does not parse leaves the fields of __init__.
Load(files) ==
    LET m == IF files.metadata.state = "complete"
             THEN files.metadata.content ELSE NoMetadata
    IN  [metadata |-> m.metadata, face_id_to_idx |-> m.face_id_to_idx,
         next_idx |-> m.next_idx,
         index |-> IF files.index.state = "complete" THEN files.index.content ELSE Empty,
         current_version |->
            IF files.version.state = "complete" /\ IntParses(files.version.content)
            THEN IntV(ParseInt(files.version.content))
            ELSE IntV(0)]

\* add_face(...)
DbAddFace(item) ==
    /\ db_pc = Ready
    /\ face_db.next_idx < MaxFaces
    /\ face_db' = AddFace(face_db, item)
    /\ UNCHANGED <<disk, db_pc, sync, rounds, db_before>>

\* remove_face(face_id) of a face the database has
DbRemoveFace(face_id) ==
    /\ db_pc = Ready
    /\ face_id \in DOMAIN face_db.face_id_to_idx
    /\ face_db' = RemoveFace(face_db, face_id)
    /\ UNCHANGED <<disk, db_pc, sync, rounds, db_before>>

\* set_version(version): the field, and _save begins
DbSetVersion(v) ==
    /\ db_pc = Ready
    /\ face_db' = [face_db EXCEPT !.current_version = v]
    /\ db_pc' = Saving("metadata", "open")
    /\ UNCHANGED <<disk, sync, rounds, db_before>>

\* _save: open(path, "w"), or save_index creating the file: the file is
\* there and empty
SaveOpen ==
    /\ db_pc.at = "save" /\ db_pc.stage = "open"
    /\ disk' = [disk EXCEPT ![db_pc.file] = PartialFile(TruncatedContent(db_pc.file))]
    /\ db_pc' = Saving(db_pc.file, "write")
    /\ UNCHANGED <<face_db, sync, rounds, db_before>>

\* _save: the content is written and the file closed
SaveWrite ==
    /\ db_pc.at = "save" /\ db_pc.stage = "write"
    /\ disk' = [disk EXCEPT ![db_pc.file] = CompleteFile(SavedContent(face_db, db_pc.file))]
    /\ db_pc' = AfterFile(face_db, db_pc.file)
    /\ UNCHANGED <<face_db, sync, rounds, db_before>>

\* The process dies (power loss, kill): its memory is gone, the files stay
\* as they are
DbCrash ==
    /\ db_pc # Crashed
    /\ db_pc' = Crashed
    /\ face_db' = NewFaceDatabase
    /\ UNCHANGED <<disk, sync, rounds, db_before>>

\* The node starts again: FaceDatabase(...) over the files
DbRestart ==
    /\ db_pc = Crashed
    /\ face_db' = Load(disk)
    /\ db_pc' = Ready
    /\ UNCHANGED <<disk, sync, rounds, db_before>>

\* A new FaceDatabase is constructed over the files while no call is under
\* way
DbReopen ==
    /\ db_pc = Ready
    /\ face_db' = Load(disk)
    /\ face_db' # face_db
    /\ UNCHANGED <<disk, db_pc, sync, rounds, db_before>>

\* A response of the backend's sync endpoint, or none (ok is false)
Response(version, upserts, deletes) ==
    [ok |-> TRUE, version |-> version, upserts |-> upserts, deletes |-> deletes]
NoResponse == [ok |-> FALSE, version |-> "", upserts |-> <<>>, deletes |-> <<>>]

\* Responses: the first enrolment; Bob's status changed and Cy deleted;
\* Ann's record replaced by one from her second photograph; no changes
Round1 == Response(V1, <<ItemF1, ItemF2, ItemF3>>, <<>>)
Round2 == Response(V2, <<ItemF2Updated>>, <<"F3">>)
Round3 == Response(V3, <<ItemF4>>, <<"F1">>)
Unchanged == Response(V3, <<>>, <<>>)
Responses == {Round1, Round2, Round3, Unchanged}

\* _sync_faces: the response has upserts or deletes
HasChanges(r) == r.upserts # <<>> \/ r.deletes # <<>>

\* _sync_faces: the since parameter of the request, "" for none
Since(v) ==
    IF v.type = "int"
    THEN IF v.num # 0 THEN Str(v) ELSE ""
    ELSE IF v.text \notin {"", "0"} THEN v.text ELSE ""

RECURSIVE RemoveAll(_, _)
\* _sync_faces: remove_face for every id of deletes
RemoveAll(db, deletes) ==
    IF deletes = <<>> THEN db
    ELSE RemoveAll(RemoveFace(db, Head(deletes)), Tail(deletes))

RECURSIVE AddAll(_, _)
\* _sync_faces: add_face for every record of upserts
AddAll(db, upserts) ==
    IF upserts = <<>> THEN db
    ELSE AddAll(AddFace(db, Head(upserts)), Tail(upserts))

\* _sync_faces: the database after the whole batch of a response
ApplyResponse(db, r) == AddAll(RemoveAll(db, r.deletes), r.upserts)

\* SyncThread.__init__
NewSyncThread ==
    [pc |-> "idle", since |-> "", response |-> NoResponse,
     deletes |-> <<>>, upserts |-> <<>>,
     last_sync_success |-> FALSE, sync_error |-> None]

\* A _sync_faces whose network error leaves the status as it was
StatusAfterNetworkErrorUntouched(st) == [st EXCEPT !.pc = "idle"]

\* _sync_faces, except requests.exceptions.RequestException: the status
StatusAfterNetworkError(st) ==
    [st EXCEPT !.pc = "idle", !.last_sync_success = FALSE, !.sync_error = "network"]

\* run: _sync_faces is due; it reads the version and sends the request
SyncRequest ==
    /\ sync.pc = "idle"
    /\ Len(rounds) < MaxRounds
    /\ sync' = [sync EXCEPT !.pc = "waiting", !.since = Since(GetVersion(face_db))]
    /\ UNCHANGED <<face_db, disk, db_pc, rounds, db_before>>

\* _sync_faces: requests.get raises (no connection, timeout, HTTP error)
SyncFail ==
    /\ sync.pc = "waiting"
    /\ sync' = StatusAfterNetworkError(sync)
    /\ rounds' = Append(rounds, NoResponse)
    /\ UNCHANGED <<face_db, disk, db_pc, db_before>>

\* _sync_faces: the response arrives.  With upserts or deletes the batch
\* begins; without, the round ends in success.
SyncReceive(r) ==
    /\ sync.pc = "waiting"
    /\ db_before' = face_db
    /\ IF HasChanges(r)
       THEN /\ sync' = [sync EXCEPT !.pc = "apply", !.response = r,
                                    !.deletes = r.deletes, !.upserts = r.upserts]
            /\ UNCHANGED rounds
       ELSE /\ sync' = [sync EXCEPT !.pc = "idle", !.response = r,
                                    !.last_sync_success = TRUE, !.sync_error = None]
            /\ rounds' = Append(rounds, r)
    /\ UNCHANGED <<face_db, disk, db_pc>>

\* _sync_faces: remove_face for the next id of deletes
SyncRemove ==
    /\ sync.pc = "apply"
    /\ sync.deletes # <<>>
    /\ face_db' = RemoveFace(face_db, Head(sync.deletes))
    /\ sync' = [sync EXCEPT !.deletes = Tail(sync.deletes)]
    /\ UNCHANGED <<disk, db_pc, rounds, db_before>>

\* _sync_faces: add_face for the next record of upserts
SyncAdd ==
    /\ sync.pc = "apply"
    /\ sync.deletes = <<>>
    /\ sync.upserts # <<>>
    /\ face_db' = AddFace(face_db, Head(sync.upserts))
    /\ sync' = [sync EXCEPT !.upserts = Tail(sync.upserts)]
    /\ UNCHANGED <<disk, db_pc, rounds, db_before>>

\* _sync_faces: self.face_db.save() raises AttributeError (FaceDatabase has
\* no save), so set_version is not reached and except Exception records
\* the failure
SyncSave ==
    /\ sync.pc = "apply"
    /\ sync.deletes = <<>>
    /\ sync.upserts = <<>>
    /\ sync' = [sync EXCEPT !.pc = "idle", !.last_sync_success = FALSE,
                            !.sync_error = "AttributeError"]
    /\ rounds' = Append(rounds, sync.response)
    /\ UNCHANGED <<face_db, disk, db_pc, db_before>>

InitDbState ==
    /\ face_db = NewFaceDatabase
    /\ disk = NoFiles
    /\ db_pc = Ready
    /\ sync = NewSyncThread
    /\ rounds = <<>>
    /\ db_before = NewFaceDatabase

----------------------------------------------------------------------------
(* The alerts of the UI thread (threads/ui_v2.py) and the alarm             *)
(* (gate-node/core/alarm.py).  Time is in whole seconds.                    *)

\* UIThread._alert_cooldown and AlarmConfig.cooldown_seconds
AlertCooldown == 3
AlarmCooldown == 5

\* No entry in _shown_track_ids or _last_alarm
Never == -1

\* A UIThread that has shown nothing, and an AlarmSystem that never fired
NewUi == [shown |-> [id \in {1} |-> Never], inserted |-> [id \in {1} |-> 0]]
NewAlarm == [last |-> [kind \in {UNKNOWN, WANTED} |-> Never],
             fired |-> [kind \in {UNKNOWN, WANTED} |-> 0]]

\* AlarmSystem.trigger(alarm_type) at time now: skipped within the cooldown
\* of the last alarm of the type, fired otherwise
Trigger(al, kind, now) ==
    IF al.last[kind] # Never /\ now - al.last[kind] < AlarmCooldown
    THEN al
    ELSE [al EXCEPT !.last[kind] = now, !.fired[kind] = @ + 1]

\* show_alert skips the call: not an alert status, or the track was shown
\* less than the cooldown ago
AlertSkipped(u, status, track_id, now) ==
    \/ status \notin {UNKNOWN, WANTED}
    \/ u.shown[track_id] # Never /\ now - u.shown[track_id] < AlertCooldown

\* UIThread.show_alert(status, track_id = track_id) at time now: the UIThread
\* it leaves
ShowAlertUi(u, status, track_id, now) ==
    IF AlertSkipped(u, status, track_id, now) THEN u
    ELSE [u EXCEPT !.shown[track_id] = now, !.inserted[track_id] = @ + 1]

\* UIThread.show_alert: the AlarmSystem it leaves (_trigger_alarm)
ShowAlertAlarm(u, al, status, track_id, now) ==
    IF AlertSkipped(u, status, track_id, now) THEN al ELSE Trigger(al, status, now)

\* UIThread.put_frame(ui_frame) with the overlay of track 1 in the frame,
\* its status as the tracker has it: one show_alert call for an UNKNOWN or
\* WANTED face
PutFrame(status) ==
    /\ ui' = ShowAlertUi(ui, status, 1, clock)
    /\ alarm' = ShowAlertAlarm(ui, alarm, status, 1, clock)
    /\ UNCHANGED clock

\* A second passes
Tick ==
    /\ clock < MaxClock
    /\ clock' = clock + 1
    /\ UNCHANGED <<ui, alarm>>

InitAlertState ==
    /\ clock = 0
    /\ ui = NewUi
    /\ alarm = NewAlarm

----------------------------------------------------------------------------
(* The capture thread and its frame queues (threads/capture.py).  A frame   *)
(* is its number in capture order.  queue.Queue operations are atomic; the  *)
(* statements of _distribute_frame interleave with the consumers.           *)

\* CaptureThread.__init__: ai_queue_size and stream_queue_size
AiQueueSize == 2
StreamQueueSize == 5

\* queue.Queue.get_nowait() on a queue that holds something: what is left
\* after the frame at the head went, for a queue that gives up its newest
GetLeavesOldest(q) == SubSeq(q, 1, Len(q) - 1)

\* queue.Queue.get_nowait() / get(): what is left after the head went
GetLeaves(q) == Tail(q)

NewCaptureThread ==
    [pc |-> "read", frame |-> 0, frames_captured |-> 0, latest_frame |-> 0,
     ai_queue |-> <<>>, stream_queue |-> <<>>,
     frames_dropped_ai |-> 0, frames_dropped_stream |-> 0]

\* run: camera.read() returned a frame; _distribute_frame stores it as the
\* latest frame
CaptureRead ==
    /\ capture.pc = "read"
    /\ capture.frames_captured < MaxCaptured
    /\ capture' = [capture EXCEPT !.pc = "ai_full", !.frames_captured = @ + 1,
                                  !.frame = capture.frames_captured + 1,
                                  !.latest_frame = capture.frames_captured + 1]
    /\ UNCHANGED ai_log

\* _distribute_frame: if self._ai_queue.full()
CaptureAiFull ==
    /\ capture.pc = "ai_full"
    /\ capture' = [capture EXCEPT !.pc = IF Len(capture.ai_queue) = AiQueueSize
                                         THEN "ai_drop" ELSE "ai_put"]
    /\ UNCHANGED ai_log

\* _distribute_frame: self._ai_queue.get_nowait(); queue.Empty is passed over
CaptureAiDrop ==
    /\ capture.pc = "ai_drop"
    /\ IF capture.ai_queue # <<>>
       THEN /\ capture' = [capture EXCEPT !.pc = "ai_put",
                                          !.ai_queue = GetLeaves(capture.ai_queue),
                                          !.frames_dropped_ai = @ + 1]
            /\ ai_log' = [ai_log EXCEPT !.discarded =
                             @ \cup {f \in 1..MaxCaptured :
                                       /\ \E i \in 1..Len(capture.ai_queue) : capture.ai_queue[i] = f
                                       /\ \A i \in 1..Len(GetLeaves(capture.ai_queue)) :
                                             GetLeaves(capture.ai_queue)[i] # f}]
       ELSE /\ capture' = [capture EXCEPT !.pc = "ai_put"]
            /\ UNCHANGED ai_log

\* _distribute_frame: self._ai_queue.put_nowait(frame); on queue.Full the
\* frame is counted as dropped
CaptureAiPut ==
    /\ capture.pc = "ai_put"
    /\ IF Len(capture.ai_queue) < AiQueueSize
       THEN /\ capture' = [capture EXCEPT !.pc = "stream",
                                          !.ai_queue = Append(@, capture.frame)]
            /\ UNCHANGED ai_log
       ELSE /\ capture' = [capture EXCEPT !.pc = "stream", !.frames_dropped_ai = @ + 1]
            /\ ai_log' = [ai_log EXCEPT !.refused = @ \cup {capture.frame}]

\* _distribute_frame: the same for the stream queue (in one step)
CaptureStream ==
    /\ capture.pc = "stream"
    /\ LET full == Len(capture.stream_queue) = StreamQueueSize
           q == IF full THEN GetLeaves(capture.stream_queue) ELSE capture.stream_queue
       IN  capture' = [capture EXCEPT !.pc = "read",
                                      !.stream_queue = Append(q, capture.frame),
                                      !.frames_dropped_stream = IF full THEN @ + 1 ELSE @]
    /\ UNCHANGED ai_log

\* get_ai_frame, called by the main loop: the frame at the head of the AI
\* queue (on a timeout it returns None and nothing changes)
GetAiFrame ==
    /\ capture.ai_queue # <<>>
    /\ capture' = [capture EXCEPT !.ai_queue = GetLeaves(@)]
    /\ ai_log' = [ai_log EXCEPT !.handed = Append(@, Head(capture.ai_queue))]

\* get_stream_frame, called by the stream and UI threads
GetStreamFrame ==
    /\ capture.stream_queue # <<>>
    /\ capture' = [capture EXCEPT !.stream_queue = GetLeaves(@)]
    /\ UNCHANGED ai_log

InitCaptureState ==
    /\ capture = NewCaptureThread
    /\ ai_log = [handed |-> <<>>, discarded |-> {}, refused |-> {}]

----------------------------------------------------------------------------
(* Start-up and exit (main.py): GateNode.start step by step, the capture    *)
(* thread it starts, and main's exit                                       *)

\* A GateNode before start(): nothing initialised, nothing held.  gpio,
\* display and stream are config.GPIO_ENABLED, config.DISPLAY_ENABLED and
\* "STREAMING_AVAILABLE and (MQTT_ENABLED or LIVEKIT_URL)".
NewNode(gpio, display, stream) ==
    [pc |-> "storage", gpio |-> gpio, display |-> display, stream |-> stream,
     failed_at |-> None, gpio_pin |-> FALSE,
     capture_thread |-> "none", camera |-> FALSE, executor |-> FALSE,
     sync_thread |-> "none", ui_thread |-> "none", stream_thread |-> "none"]

\* start: a step returned False, so start returns False
StartFails(b, step) == [b EXCEPT !.pc = "failed", !.failed_at = step]

\* What is left of the node when main has called sys.exit(1) after a failed
\* start(): the state as start() left it, since stop() is not called
ExitAfterFailedStart(b) == [b EXCEPT !.pc = "exited"]

\* _init_storage: FaceDatabase and AccessLogger are constructed; neither
\* keeps a connection open
InitStorage(ok) ==
    /\ boot.pc = "storage"
    /\ boot' = IF ok THEN [boot EXCEPT !.pc = "vision"] ELSE StartFails(boot, "storage")

\* _init_vision: the model files are looked for and loaded
InitVision(ok) ==
    /\ boot.pc = "vision"
    /\ boot' = IF ok THEN [boot EXCEPT !.pc = "gate"] ELSE StartFails(boot, "vision")

\* _init_gate: with GPIO enabled initialize() sets the relay pin up as an
\* output and its failure fails the start; with GPIO disabled the result of
\* initialize() is not looked at
InitGateStep(ok) ==
    /\ boot.pc = "gate"
    /\ boot' = IF ~boot.gpio THEN [boot EXCEPT !.pc = "camera"]
               ELSE IF ok THEN [boot EXCEPT !.pc = "camera", !.gpio_pin = TRUE]
               ELSE StartFails(boot, "gate")

\* _init_camera: the capture thread is created and started
InitCameraStart ==
    /\ boot.pc = "camera"
    /\ boot' = [boot EXCEPT !.pc = "camera_wait", !.capture_thread = "starting"]

\* CaptureThread.run: _open_camera succeeds and the capture loop begins
CaptureThreadOpen ==
    /\ boot.capture_thread = "starting"
    /\ boot.pc # "exited"
    /\ boot' = [boot EXCEPT !.capture_thread = "running", !.camera = TRUE]

\* CaptureThread.run: _open_camera fails and run returns
CaptureThreadOpenFails ==
    /\ boot.capture_thread = "starting"
    /\ boot.pc # "exited"
    /\ boot' = [boot EXCEPT !.capture_thread = "ended"]

\* _init_camera: camera_opened is seen within 3 seconds, or not
InitCameraWait ==
    /\ boot.pc = "camera_wait"
    /\ boot' = IF boot.capture_thread = "running"
               THEN [boot EXCEPT !.pc = "alarm"] ELSE StartFails(boot, "camera")

\* _init_alarm: returns True whatever happens
InitAlarm ==
    /\ boot.pc = "alarm"
    /\ boot' = [boot EXCEPT !.pc = "threads"]

\* The threads _init_threads has constructed when made of its constructors
\* have returned, after the executor's
ThreadsConstructed(b, made) ==
    [b EXCEPT !.executor = TRUE,
              !.sync_thread = IF made >= 1 THEN "created" ELSE "none",
              !.ui_thread = IF made >= 2 /\ b.display THEN "created" ELSE "none",
              !.stream_thread = IF made >= 3 /\ b.stream THEN "created" ELSE "none"]

\* _init_threads: the executor and the threads are constructed; an
\* exception in a constructor fails the start
InitThreads(ok, made) ==
    /\ boot.pc = "threads"
    /\ boot' = IF ok THEN [ThreadsConstructed(boot, 3) EXCEPT !.pc = "start_sync"]
               ELSE StartFails(ThreadsConstructed(boot, made), "threads")

\* start: self.sync_thread.start()
StartSync ==
    /\ boot.pc = "start_sync"
    /\ boot' = [boot EXCEPT !.pc = "start_ui", !.sync_thread = "running"]

\* start: if self.ui_thread: self.ui_thread.start()
StartUi ==
    /\ boot.pc = "start_ui"
    /\ boot' = [boot EXCEPT !.pc = "start_stream",
                            !.ui_thread = IF @ = "created" THEN "running" ELSE @]

\* start: if self.stream_thread: self.stream_thread.start(); _running = True
StartStream ==
    /\ boot.pc = "start_stream"
    /\ boot' = [boot EXCEPT !.pc = "running",
                            !.stream_thread = IF @ = "created" THEN "running" ELSE @]

\* main: start() returned False: logger.error and sys.exit(1)
MainExit ==
    /\ boot.pc = "failed"
    /\ boot' = ExitAfterFailedStart(boot)

\* stop(), after a start that succeeded: cleanup_all, the executor is shut
\* down, the sync, UI and stream threads are stopped and joined
StopWorkers ==
    /\ boot.pc = "running"
    /\ boot' = [boot EXCEPT !.pc = "stop_capture", !.executor = FALSE,
                            !.sync_thread = "stopped",
                            !.ui_thread = IF @ = "running" THEN "stopped" ELSE @,
                            !.stream_thread = IF @ = "running" THEN "stopped" ELSE @]

\* stop(): the capture thread is stopped and joined; its run() releases the
\* camera after the loop
StopCapture ==
    /\ boot.pc = "stop_capture"
    /\ boot' = [boot EXCEPT !.pc = "stop_gate", !.capture_thread = "ended",
                            !.camera = FALSE]

\* stop(): gate_controller.cleanup() releases the relay pin
StopGate ==
    /\ boot.pc = "stop_gate"
    /\ boot' = [boot EXCEPT !.pc = "stop_logger", !.gpio_pin = FALSE]

\* stop(): self.access_logger.close() raises AttributeError, AccessLogger
\* having no close method
StopLogger ==
    /\ boot.pc = "stop_logger"
    /\ boot' = [boot EXCEPT !.pc = "stop_raised"]

InitStartState ==
    boot = NewNode(FALSE, FALSE, FALSE)

----------------------------------------------------------------------------
(* The keys of the display (threads/ui_v2.py, UIThread._render_loop) and    *)
(* the main vision loop that runs beside it (main.py, GateNode.run, main)   *)

\* DisplayMode, in the order _cycle_mode cycles through
DisplayModes == <<"alert_only", "continuous", "streaming">>

\* _cycle_mode
CycleMode(mode) ==
    LET i == CHOOSE k \in 1..Len(DisplayModes) : DisplayModes[k] = mode
    IN  DisplayModes[(i % Len(DisplayModes)) + 1]

\* The keys cv.waitKey can report, "none" for no key
Keys == {"q", "m", "f", "none"}

\* A started node with its display: the UIThread in mode, the main thread
\* about to test the condition of the vision loop
StartedNode(mode, fullscreen) ==
    [mode |-> mode, fullscreen |-> fullscreen,
     ui_stop_event |-> FALSE, ui_thread |-> "running", q_pressed |-> FALSE,
     running |-> TRUE, shutdown_event |-> FALSE, main |-> "test", stopped |-> FALSE]

\* What pressing q does to the node: UIThread._stop_event is set; the
\* node's _running and _shutdown_event are not touched
AfterQ(q) == [q EXCEPT !.ui_stop_event = TRUE, !.q_pressed = TRUE]

\* One pass of the while loop of _render_loop: the loop ends if _stop_event
\* is set, else the canvas is shown and the key is handled
UiRender(key) ==
    /\ quit.ui_thread = "running"
    /\ quit' = IF quit.ui_stop_event THEN [quit EXCEPT !.ui_thread = "ended"]
               ELSE IF key = "q" THEN AfterQ(quit)
               ELSE IF key = "m" THEN [quit EXCEPT !.mode = CycleMode(@)]
               ELSE IF key = "f" THEN [quit EXCEPT !.fullscreen = ~@]
               ELSE quit

\* run: the condition of the while loop
MainTest ==
    /\ quit.main = "test"
    /\ quit' = IF quit.running /\ ~quit.shutdown_event
               THEN [quit EXCEPT !.main = "get"] ELSE [quit EXCEPT !.main = "ended"]

\* run: get_ai_frame(timeout=0.1) hands a frame out, or None (continue)
MainGetFrame(got) ==
    /\ quit.main = "get"
    /\ quit' = [quit EXCEPT !.main = IF got THEN "process" ELSE "test"]

\* run: detection, tracking and the submission of recognitions
MainProcess ==
    /\ quit.main = "process"
    /\ quit' = [quit EXCEPT !.main = "put"]

\* run: ui_thread.put_frame and update_status, whether or not the UI
\* thread is still alive; the loop goes round
MainPutFrame ==
    /\ quit.main = "put"
    /\ quit' = [quit EXCEPT !.main = "test"]

\* run: the loop body raises; main catches the exception
RunRaises ==
    /\ quit.main = "process"
    /\ quit' = [quit EXCEPT !.main = "ended"]

\* What stop() does to the flags and to the UI thread
AfterStop(q) ==
    [q EXCEPT !.running = FALSE, !.shutdown_event = TRUE, !.ui_stop_event = TRUE,
              !.stopped = TRUE]

\* main: run() has returned or raised: finally: node.stop()
MainFinally ==
    /\ quit.main = "ended"
    /\ ~quit.stopped
    /\ quit' = AfterStop(quit)

\* SIGINT or SIGTERM: signal_handler calls node.stop() in the main thread,
\* which leaves run()
Signal ==
    /\ quit.main # "ended"
    /\ quit' = [AfterStop(quit) EXCEPT !.main = "ended"]

InitQuitState ==
    quit = StartedNode("alert_only", FALSE)

----------------------------------------------------------------------------
(* The alert grid of the display (threads/ui_v2.py, _render_alert_mode)     *)

\* UIThread.MAX_ALERTS
MAX_ALERTS == 4

\* The first n elements of a list: list[:n]
FirstN(seq, n) == SubSeq(seq, 1, IF Len(seq) < n THEN Len(seq) ELSE n)

\* The sort key of _render_alert_mode: (0 if WANTED else 1, timestamp)
AlertBefore(a, b) ==
    LET prio(x) == IF x.status = WANTED THEN 0 ELSE 1
    IN  prio(a) < prio(b) \/ (prio(a) = prio(b) /\ a.timestamp < b.timestamp)

\* list.sort(key=...) of alerts with distinct timestamps
RECURSIVE SortAlerts(_)
SortAlerts(seq) ==
    IF seq = <<>> THEN <<>>
    ELSE LET i == CHOOSE k \in 1..Len(seq) :
                     \A j \in 1..Len(seq) : j = k \/ AlertBefore(seq[k], seq[j])
         IN  <<seq[i]>> \o SortAlerts(SubSeq(seq, 1, i - 1) \o SubSeq(seq, i + 1, Len(seq)))

\* The alerts _render_alert_mode draws, in the order of the cells: the
\* values of the dict are cut to MAX_ALERTS, then sorted
AlertsDrawn(alerts) == SortAlerts(FirstN(alerts, MAX_ALERTS))

\* self._active_alerts[track_id] = alert: a new key goes to the end of the
\* dict, a key that is there keeps its place and takes the new value
DictSet(alerts, alert) ==
    IF \E k \in 1..Len(alerts) : alerts[k].track_id = alert.track_id
    THEN [k \in 1..Len(alerts) |->
             IF alerts[k].track_id = alert.track_id THEN alert ELSE alerts[k]]
    ELSE Append(alerts, alert)

\* show_alert(status, track_id=track_id), a call that passes the duplicate
\* test: the alert goes into _active_alerts with the time of the call.
\* (Track ids are handed out in increasing order: the call is for a track
\* that raised an alert before or for the next one.)
ShowAlert(status, track_id) ==
    /\ active_alerts.calls < MaxAlertCalls
    /\ track_id <= active_alerts.tracks + 1
    /\ active_alerts' =
          [alerts |-> DictSet(active_alerts.alerts,
                              [track_id |-> track_id, status |-> status,
                               timestamp |-> active_alerts.calls + 1]),
           calls |-> active_alerts.calls + 1,
           tracks |-> IF track_id > active_alerts.tracks
                      THEN track_id ELSE active_alerts.tracks]
    /\ UNCHANGED rendered

\* _cleanup_expired_alerts when the oldest alert has been up for more than
\* 60 s and the others have not (both durations are 60 s)
CleanupExpiredAlerts ==
    /\ active_alerts.alerts # <<>>
    /\ active_alerts' =
          [active_alerts EXCEPT !.alerts =
              SelectSeq(@, LAMBDA a : \E b \in {@[k] : k \in 1..Len(@)} :
                                          b.timestamp < a.timestamp)]
    /\ UNCHANGED rendered

\* _render_alert_mode
RenderAlertMode ==
    /\ rendered' = [active |-> active_alerts.alerts,
                    drawn |-> AlertsDrawn(active_alerts.alerts)]
    /\ UNCHANGED active_alerts

InitRenderState ==
    /\ active_alerts = [alerts |-> <<>>, calls |-> 0, tracks |-> 0]
    /\ rendered = [active |-> <<>>, drawn |-> <<>>]

----------------------------------------------------------------------------
(* AlarmSystem.trigger called by several threads (gate-node/core/alarm.py) *)

\* AlarmType values a caller passes
SILENT == "silent"
AlarmTypes == {WANTED, UNKNOWN, SILENT}

\* A thread that is not inside trigger()
OutsideTrigger == [pc |-> "out", kind |-> SILENT, now |-> 0, force |-> FALSE]

\* An AlarmSystem nobody has triggered: _last_alarm is empty, and get()
\* answers 0 for a missing key.  The time starts at the cooldown: time.time()
\* is far more than cooldown_seconds after 0.
NewAlarmSystem(enabled) ==
    [enabled |-> enabled, clock |-> AlarmCooldown,
     last |-> [kind \in AlarmTypes |-> 0],
     callers |-> [c \in TriggerCallers |-> OutsideTrigger],
     calls |-> <<>>]

\* A trigger() whose cooldown test never skips a call
CooldownSkipsNever(last_time, now, force) == FALSE

\* trigger: the cooldown test, `not force and (now - last_time) < cooldown`
CooldownSkips(last_time, now, force) ==
    ~force /\ (now - last_time) < AlarmCooldown

\* trigger, up to the lock: disabled or SILENT returns False, otherwise
\* now = time.time() is read
TriggerEnter(c, kind, force) ==
    /\ trig.callers[c].pc = "out"
    /\ Len(trig.calls) + Cardinality({d \in TriggerCallers : trig.callers[d].pc = "lock"})
          < MaxTriggerCalls
    /\ trig' = IF ~trig.enabled \/ kind = SILENT
               THEN [trig EXCEPT !.calls = Append(@, [kind |-> kind, now |-> trig.clock,
                                                      force |-> force, result |-> FALSE])]
               ELSE [trig EXCEPT !.callers[c] = [pc |-> "lock", kind |-> kind,
                                                 now |-> trig.clock, force |-> force]]

\* trigger, under self._lock: the cooldown test, and _last_alarm is set; the
\* alarm thread is started and True returned
TriggerLocked(c) ==
    /\ trig.callers[c].pc = "lock"
    /\ LET me == trig.callers[c]
           skip == CooldownSkips(trig.last[me.kind], me.now, me.force)
       IN  trig' = [trig EXCEPT
                      !.last[me.kind] = IF skip THEN @ ELSE me.now,
                      !.callers[c] = OutsideTrigger,
                      !.calls = Append(@, [kind |-> me.kind, now |-> me.now,
                                           force |-> me.force, result |-> ~skip])]

\* A second passes
TriggerTick ==
    /\ trig.clock < AlarmCooldown + MaxTriggerClock
    /\ trig' = [trig EXCEPT !.clock = @ + 1]

InitTriggerState ==
    trig = NewAlarmSystem(TRUE)

\* AUX-SECTIONS
InitAuxState ==
    /\ ids_created = <<>>
    /\ engine = ConfiguredEngine
    /\ decided = NoCall
    /\ InitAlertState
    /\ InitCaptureState
    /\ InitShutdownState
    /\ InitStartState
    /\ InitTriggerState
    /\ InitRenderState
    /\ InitQuitState
    /\ InitCooldownState

----------------------------------------------------------------------------
(* The tracker driven through its public API by any caller *)

\* Thresholds of the detector and of main.py's embedding step
NmsThreshold == 40

\* The constructor arguments main.py passes, and the constructor's defaults
MainParams ==
    [iou_threshold |-> 20, max_age |-> 30, min_hits |-> 1,
     max_embedding_distance |-> 100, embedding_weight |-> 0]
DefaultParams ==
    [iou_threshold |-> 30, max_age |-> 3, min_hits |-> 3,
     max_embedding_distance |-> 60, embedding_weight |-> 30]

\* Recognition results a caller may report
ApiResults ==
    {[face_id |-> "F1", status |-> "AUTHORIZED", confidence |-> 80],
     [face_id |-> None, status |-> "UNKNOWN", confidence |-> 0]}

\* Embeddings a caller may attach to a detection
ApiEmbeddings == {None, PersonA, PersonB}

RECURSIVE DetectionLists(_, _)
\* Lists of at most n detections no two of which overlap beyond the
\* detector's NMS threshold
DetectionLists(dets, n) ==
    IF n = 0 THEN {<<>>}
    ELSE LET shorter == DetectionLists(dets, n - 1)
             longer == {x \in (shorter \X dets) :
                          /\ Len(x[1]) = n - 1
                          /\ \A i \in 1..(n - 1) :
                                ComputeIou(x[1][i].bbox, x[2].bbox) <= NmsThreshold}
         IN  shorter \cup {Append(x[1], x[2]) : x \in longer}

\* Detections a caller may hand to update: a face at BoxL with or without
\* an embedding, and a face elsewhere
ApiDetections ==
    {[bbox |-> BoxL, emb |-> e, landmarks |-> BoxL] : e \in ApiEmbeddings}
    \cup {[bbox |-> BoxR, emb |-> None, landmarks |-> NoLandmarks]}

ApiDetectionLists == DetectionLists(ApiDetections, MaxDets)

InitTrackerState ==
    /\ tracks = <<>>
    /\ next_id = 1
    /\ stats = [tracks_created |-> 0, tracks_confirmed |-> 0, tracks_recognized |-> 0,
                authorized_count |-> 0, wanted_count |-> 0, unknown_count |-> 0]
    /\ frames = 0
    /\ trail = <<>>
    /\ marks = <<>>

\* tracker.update(detections)
TrackerUpdateWithin(dets, limit) ==
    /\ frames < limit
    /\ \E a \in HungarianAssignments(dets, Predict(tracks), params) :
          LET r == UpdateResult(tracks, next_id, stats, dets, a, params)
          IN  /\ tracks' = r.tracks
              /\ next_id' = r.next_id
              /\ stats' = r.stats
              /\ trail' = TrailAfter(trail, r.tracks, r.next_id)
              /\ marks' = MarksAfter(marks, r.tracks, r.next_id, 0, FALSE)
    /\ frames' = frames + 1
    /\ UNCHANGED params

\* tracker.update(detections), for the update() calls explored
TrackerUpdate(dets) == TrackerUpdateWithin(dets, MaxFrames)

\* tracker.update_track_recognition(track_id, ...)
TrackerMark(track_id, res) ==
    LET r == UpdateTrackRecognition(tracks, stats, track_id,
                                    res.face_id, res.status, res.confidence)
    IN  /\ tracks' = r.tracks
        /\ stats' = r.stats
        /\ trail' = TrailAfter(trail, r.tracks, next_id)
        /\ marks' = MarksAfter(marks, r.tracks, next_id, track_id, r.ret)
        /\ UNCHANGED <<params, next_id, frames>>

\* tracker.record_recognition_attempt(track_id)
TrackerAttempt(track_id) ==
    /\ tracks' = RecordRecognitionAttempt(tracks, track_id)
    /\ UNCHANGED <<params, next_id, stats, frames, trail, marks>>

InitTracker ==
    /\ params = MainParams
    /\ InitTrackerState
    /\ InitGateState
    /\ InitNodeState
    /\ InitRaceState
    /\ InitDbState
    /\ InitAuxState

NextTracker ==
    \/ /\ \E dets \in ApiDetectionLists : TrackerUpdate(dets)
       /\ UNCHANGED <<gateVars, nodeVars, raceVars, dbVars, auxVars>>
    \/ /\ \E id \in 1..next_id, res \in ApiResults : TrackerMark(id, res)
       /\ UNCHANGED <<gateVars, nodeVars, raceVars, dbVars, auxVars>>
    \/ /\ \E id \in 1..next_id :
             /\ HasTrack(tracks, id) => GetTrack(tracks, id).recognition_attempts < ApiAttempts
             /\ TrackerAttempt(id)
       /\ UNCHANGED <<gateVars, nodeVars, raceVars, dbVars, auxVars>>

\* The tracker as main.py configures it, called in any order
SpecTracker == InitTracker /\ [][NextTracker]_vars

\* DeepSORTLiteTracker(max_age=0), the other arguments at their defaults
ZeroAgeParams == [DefaultParams EXCEPT !.max_age = 0]

InitZeroAge ==
    /\ params = ZeroAgeParams
    /\ InitTrackerState
    /\ InitGateState
    /\ InitNodeState
    /\ InitRaceState
    /\ InitDbState
    /\ InitAuxState

\* A tracker built with max_age = 0, called in any order
SpecZeroAge == InitZeroAge /\ [][NextTracker]_vars

\* Trackers whose max_embedding_distance is the constructor default or the
\* swap threshold itself
GatedParams ==
    {DefaultParams, [DefaultParams EXCEPT !.max_embedding_distance = SwapThreshold]}

InitGated ==
    /\ params \in GatedParams
    /\ InitTrackerState
    /\ InitGateState
    /\ InitNodeState
    /\ InitRaceState
    /\ InitDbState
    /\ InitAuxState

\* A tracker whose embedding gate is no wider than the swap threshold, called
\* in any order
SpecGated == InitGated /\ [][NextTracker]_vars

NextRace ==
    \/ /\ \E dets \in ApiDetectionLists : TrackerUpdate(dets)
       /\ UNCHANGED <<gateVars, nodeVars, raceVars, dbVars, auxVars>>
    \/ /\ \E id \in 1..next_id, res \in ApiResults : MarkEnter(id, res)
       /\ UNCHANGED <<gateVars, nodeVars, dbVars, auxVars>>
    \/ /\ MarkSetRecognized
       /\ UNCHANGED <<gateVars, nodeVars, dbVars, auxVars>>
    \/ /\ MarkSetPhase
       /\ UNCHANGED <<gateVars, nodeVars, dbVars, auxVars>>
    \/ /\ MarkSetIdentity
       /\ UNCHANGED <<gateVars, nodeVars, dbVars, auxVars>>
    \/ /\ MarkCount
       /\ UNCHANGED <<gateVars, nodeVars, dbVars, auxVars>>
    \/ /\ \E id \in 1..next_id :
             /\ HasTrack(tracks, id) /\ GetTrack(tracks, id).recognition_attempts < ApiAttempts
             /\ TrackerAttempt(id)
       /\ UNCHANGED <<gateVars, nodeVars, raceVars, dbVars, auxVars>>

\* The tracker called by two threads: one calls update, the other calls
\* update_track_recognition and record_recognition_attempt, and the
\* statements of the two interleave
SpecRace == InitTracker /\ [][NextRace]_vars

\* History: the ids of the tracks an update created, in the order of creation
CreatedBy(nid, nid2) == [k \in 1..(nid2 - nid) |-> nid + k - 1]

\* tracker.update(detections), with the history of the ids it assigned
ClearUpdate(dets) ==
    /\ TrackerUpdate(dets)
    /\ ids_created' = ids_created \o CreatedBy(next_id, next_id')

\* tracker.clear(): no tracks, _next_id back at 1, new statistics
TrackerClear ==
    /\ tracks' = <<>>
    /\ next_id' = 1
    /\ stats' = [tracks_created |-> 0, tracks_confirmed |-> 0, tracks_recognized |-> 0,
                 authorized_count |-> 0, wanted_count |-> 0, unknown_count |-> 0]
    /\ trail' = <<>>
    /\ marks' = <<>>
    /\ UNCHANGED <<params, frames, ids_created>>

NextClear ==
    \/ /\ \E dets \in ApiDetectionLists : ClearUpdate(dets)
       /\ UNCHANGED <<gateVars, nodeVars, raceVars, dbVars, auxButLife>>
    \/ /\ TrackerClear
       /\ UNCHANGED <<gateVars, nodeVars, raceVars, dbVars, auxButLife>>

\* A tracker over its whole life: update and clear, called in any order
SpecClear == InitTracker /\ [][NextClear]_vars

\* The engines make_decision is tried on and the confidences it is given
Engines ==
    {ConfiguredEngine, DefaultEngine,
     [confidence_threshold |-> 70, wanted_confidence_threshold |-> 70]}
Confidences == {0, 49, 50, 59, 60, 69, 70, 100}

InitDecision ==
    /\ params = MainParams
    /\ InitTrackerState
    /\ InitGateState
    /\ InitNodeState
    /\ InitRaceState
    /\ InitDbState
    /\ ids_created = <<>>
    /\ engine \in Engines
    /\ decided = NoCall
    /\ InitAlertState
    /\ InitCaptureState
    /\ InitShutdownState
    /\ InitStartState
    /\ InitTriggerState
    /\ InitRenderState
    /\ InitQuitState
    /\ InitCooldownState

NextDecision ==
    /\ \E m \in BOOLEAN, c \in Confidences, st \in Statuses : Decide(m, c, st)
    /\ UNCHANGED <<trackerVars, gateVars, nodeVars, raceVars, dbVars, auxButDecision>>

\* A DecisionEngine asked for decisions, one call after another
SpecDecision == InitDecision /\ [][NextDecision]_vars

\* One face before the gate, or none: the detection lists of a long run
AgingDetectionLists ==
    {<<>>} \cup {<<[bbox |-> BoxL, emb |-> e, landmarks |-> BoxL]>> : e \in {PersonA, PersonB}}

\* The one result the recognition thread of a long run reports
AgingResult == [face_id |-> "F1", status |-> "AUTHORIZED", confidence |-> 80]

NextAging ==
    \/ /\ \E dets \in AgingDetectionLists : TrackerUpdateWithin(dets, AgingFrames)
       /\ UNCHANGED <<gateVars, nodeVars, raceVars, dbVars, auxVars>>
    \/ /\ \E id \in 1..next_id : MarkEnter(id, AgingResult)
       /\ UNCHANGED <<gateVars, nodeVars, dbVars, auxVars>>
    \/ /\ MarkSetRecognized
       /\ UNCHANGED <<gateVars, nodeVars, dbVars, auxVars>>
    \/ /\ MarkSetPhase
       /\ UNCHANGED <<gateVars, nodeVars, dbVars, auxVars>>
    \/ /\ MarkSetIdentity
       /\ UNCHANGED <<gateVars, nodeVars, dbVars, auxVars>>
    \/ /\ MarkCount
       /\ UNCHANGED <<gateVars, nodeVars, dbVars, auxVars>>

\* The tracker over a run long enough for tracks to time out: the main
\* thread calls update, a recognition thread calls update_track_recognition
SpecAging == InitTracker /\ [][NextAging]_vars

----------------------------------------------------------------------------
(* The gate controller driven by any caller, with its timers *)

InitGate ==
    /\ params = MainParams
    /\ InitTrackerState
    /\ InitGateState
    /\ InitNodeState
    /\ InitRaceState
    /\ InitDbState
    /\ InitAuxState

TimerStep ==
    \/ \E k \in 1..Len(timers) : TimerExpire(k)
    \/ \E k \in 1..Len(timers) : AutoClose(k)

NextGate ==
    \/ /\ Len(timers) < MaxOpens
       /\ \E d \in GateDecisions : OpenGate(d)
       /\ UNCHANGED <<trackerVars, nodeVars, raceVars, dbVars, auxVars>>
    \/ /\ CloseGate
       /\ UNCHANGED <<trackerVars, nodeVars, raceVars, dbVars, auxVars>>
    \/ /\ TimerStep
       /\ UNCHANGED <<trackerVars, nodeVars, raceVars, dbVars, auxVars>>

SpecGate == InitGate /\ [][NextGate]_vars

NextGateCooldown ==
    \/ /\ Len(timers) < MaxOpens
       /\ \E d \in GateDecisions : OpenGateAt(d)
       /\ UNCHANGED <<trackerVars, nodeVars, raceVars, dbVars, auxButCooldown>>
    \/ /\ CloseGate
       /\ UNCHANGED <<trackerVars, nodeVars, raceVars, dbVars, auxVars>>
    \/ /\ TimerStepAt
       /\ UNCHANGED <<trackerVars, nodeVars, raceVars, dbVars, auxButCooldown>>
    \/ /\ GateTick
       /\ UNCHANGED <<trackerVars, gateVars, nodeVars, raceVars, dbVars, auxButCooldown>>

\* The gate controller with the time of each call
SpecGateCooldown == InitGate /\ [][NextGateCooldown]_vars

\* A gate controller with or without GPIO
InitGateShutdown ==
    /\ params = MainParams
    /\ InitTrackerState
    /\ InitGateState
    /\ InitNodeState
    /\ InitRaceState
    /\ InitDbState
    /\ ids_created = <<>>
    /\ engine = ConfiguredEngine
    /\ decided = NoCall
    /\ InitAlertState
    /\ InitCaptureState
    /\ gpio_enabled \in BOOLEAN
    /\ cleaned = FALSE
    /\ InitStartState
    /\ InitTriggerState
    /\ InitRenderState
    /\ InitQuitState
    /\ InitCooldownState

NextGateShutdown ==
    \/ /\ ~cleaned
       /\ Len(timers) < MaxOpens
       /\ \E d \in GateDecisions : OpenGate(d)
       /\ UNCHANGED <<trackerVars, nodeVars, raceVars, dbVars, auxVars>>
    \/ /\ ~cleaned
       /\ CloseGate
       /\ UNCHANGED <<trackerVars, nodeVars, raceVars, dbVars, auxVars>>
    \/ /\ ~cleaned
       /\ TimerStep
       /\ UNCHANGED <<trackerVars, nodeVars, raceVars, dbVars, auxVars>>
    \/ /\ GateCleanup
       /\ UNCHANGED <<trackerVars, nodeVars, raceVars, dbVars, auxButShutdown>>

\* The gate controller until GateNode.stop calls cleanup(); nothing calls
\* the controller afterwards
SpecGateShutdown == InitGateShutdown /\ [][NextGateShutdown]_vars

\* A started timer's interval ends, and its thread gets the lock
SpecGateFair == SpecGate /\ WF_vars(TimerStep /\ UNCHANGED <<trackerVars, nodeVars, raceVars, dbVars, auxVars>>)

----------------------------------------------------------------------------
(* The node: the main loop and the recognition threads, over the frames of  *)
(* a visit.  The frames explored span less than open_duration (5 s), so no  *)
(* auto-close timer ends during them; the timers run in SpecGate.           *)

Init ==
    /\ params = MainParams
    /\ InitTrackerState
    /\ InitGateState
    /\ InitNodeState
    /\ InitRaceState
    /\ InitDbState
    /\ InitAuxState

Next ==
    \/ /\ \E frame \in Scenes : MainUpdate(frame)
       /\ UNCHANGED <<raceVars, dbVars, auxVars>>
    \/ /\ MainList
       /\ UNCHANGED <<raceVars, dbVars, auxVars>>
    \/ /\ MainSkip
       /\ UNCHANGED <<raceVars, dbVars, auxVars>>
    \/ /\ MainSubmit
       /\ UNCHANGED <<raceVars, dbVars, auxVars>>
    \/ /\ \E w \in 1..MaxWorkers : WorkerStart(w)
       /\ UNCHANGED <<raceVars, dbVars, auxVars>>
    \/ /\ \E w \in 1..MaxWorkers : WorkerMark(w)
       /\ UNCHANGED <<raceVars, dbVars, auxVars>>
    \/ /\ \E w \in 1..MaxWorkers : WorkerOpen(w)
       /\ UNCHANGED <<raceVars, dbVars, auxVars>>
    \/ /\ \E w \in 1..MaxWorkers : WorkerLog(w)
       /\ UNCHANGED <<raceVars, dbVars, auxVars>>
    \/ /\ \E w \in 1..MaxWorkers : WorkerAttempt(w)
       /\ UNCHANGED <<raceVars, dbVars, auxVars>>
    \/ /\ \E w \in 1..MaxWorkers : WorkerCheckMax(w)
       /\ UNCHANGED <<raceVars, dbVars, auxVars>>
    \/ /\ \E w \in 1..MaxWorkers : WorkerExcept(w)
       /\ UNCHANGED <<raceVars, dbVars, auxVars>>
    \/ /\ \E w \in 1..MaxWorkers : WorkerFinally(w)
       /\ UNCHANGED <<raceVars, dbVars, auxVars>>

Spec == Init /\ [][Next]_vars

\* The frames of a visit in which A moves: A in front of the gate, A a step
\* to the right, nobody
MovingScenes == {<<Face(PersonA, BoxL)>>, <<Face(PersonA, BoxL2)>>, <<>>}

\* _recognize_track: the bbox and landmarks the thread that takes task reads
\* off the Track object it was given
BoxesRead(task) ==
    LET t == TrackObject(tracks, lost, task.track_id)
    IN  [bbox |-> t.bbox, landmarks |-> t.landmarks]

NextMoving ==
    \/ /\ \E frame \in MovingScenes : MainUpdate(frame)
       /\ UNCHANGED <<raceVars, dbVars, auxVars>>
    \/ /\ MainList
       /\ UNCHANGED <<raceVars, dbVars, auxVars>>
    \/ /\ MainSkip
       /\ UNCHANGED <<raceVars, dbVars, auxVars>>
    \/ /\ MainSubmit
       /\ UNCHANGED <<raceVars, dbVars, auxVars>>
    \/ /\ \E w \in 1..MaxWorkers : WorkerStart(w)
       /\ UNCHANGED <<raceVars, dbVars, auxVars>>
    \/ /\ \E w \in 1..MaxWorkers : WorkerMark(w)
       /\ UNCHANGED <<raceVars, dbVars, auxVars>>
    \/ /\ \E w \in 1..MaxWorkers : WorkerOpen(w)
       /\ UNCHANGED <<raceVars, dbVars, auxVars>>
    \/ /\ \E w \in 1..MaxWorkers : WorkerLog(w)
       /\ UNCHANGED <<raceVars, dbVars, auxVars>>
    \/ /\ \E w \in 1..MaxWorkers : WorkerAttempt(w)
       /\ UNCHANGED <<raceVars, dbVars, auxVars>>
    \/ /\ \E w \in 1..MaxWorkers : WorkerCheckMax(w)
       /\ UNCHANGED <<raceVars, dbVars, auxVars>>
    \/ /\ \E w \in 1..MaxWorkers : WorkerExcept(w)
       /\ UNCHANGED <<raceVars, dbVars, auxVars>>
    \/ /\ \E w \in 1..MaxWorkers : WorkerFinally(w)
       /\ UNCHANGED <<raceVars, dbVars, auxVars>>

\* The node over the frames of a visit in which the face moves
SpecMoving == Init /\ [][NextMoving]_vars

\* The frames of a visit in which A stays in front of the gate: every frame
\* shows A where the track of A is matched
SteadyScenes == {<<Face(PersonA, BoxL)>>, <<Face(PersonA, BoxL2)>>}

\* Track.hits and the count of update() calls are followed up to HitsCap:
\* update reads hits only in `hits >= min_hits`, and min_hits < HitsCap
HitsCap == 3
CapHits(trks) == [i \in 1..Len(trks) |-> [trks[i] EXCEPT !.hits = Min2(@, HitsCap)]]

\* Track.recognition_attempts is followed up to AttemptsCap: _recognize_track
\* reads it only in `recognition_attempts >= max_recognition_attempts`
AttemptsCap == 4
CapAttempts(trks) ==
    [i \in 1..Len(trks) |->
        [trks[i] EXCEPT !.recognition_attempts = Min2(@, AttemptsCap)]]

\* run: a frame arrives and goes to tracker.update, in a loop that never ends
SteadyUpdate(frame) ==
    /\ main_pc = "frame"
    /\ LET dets == TrackerDetections(frame, tracks)
       IN  \E a \in HungarianAssignments(dets, Predict(tracks), params) :
              LET r == UpdateResult(tracks, next_id, stats, dets, a, params)
              IN  /\ tracks' = CapHits(r.tracks)
                  /\ next_id' = r.next_id
                  /\ stats' = r.stats
                  /\ trail' = TrailAfter(trail, r.tracks, r.next_id)
                  /\ marks' = MarksAfter(marks, r.tracks, r.next_id, 0, FALSE)
                  /\ opened' = OpenedAfter(opened, r.next_id, 0, 0)
                  /\ lost' = LostAfter(lost, RemovedTracks(tracks, dets, a, params), pending)
    /\ frames' = Min2(frames + 1, HitsCap)
    /\ cur_frame' = frame
    /\ main_pc' = "list"
    /\ UNCHANGED <<params, todo, pending, task_queue, workers>>
    /\ UNCHANGED gateVars
    /\ UNCHANGED access_events

\* _recognize_track, a call raised: the except clause
SteadyExcept(w) ==
    /\ workers[w].pc = "except"
    /\ tracks' = CapAttempts(RecordRecognitionAttempt(tracks, workers[w].track_id))
    /\ workers' = [workers EXCEPT ![w].pc = "finally"]
    /\ UNCHANGED <<params, next_id, stats, frames, trail, marks>>
    /\ UNCHANGED <<main_pc, cur_frame, todo, pending, task_queue, opened, lost>>
    /\ UNCHANGED gateVars
    /\ UNCHANGED access_events

\* The main thread's steps
SteadyMainStep ==
    /\ \/ \E frame \in SteadyScenes : SteadyUpdate(frame)
       \/ MainList
       \/ MainSkip
       \/ MainSubmit
    /\ UNCHANGED <<raceVars, dbVars, auxVars>>

\* The steps of the executor's thread w
SteadyWorkerStep(w) ==
    /\ \/ WorkerStart(w)
       \/ WorkerMark(w)
       \/ WorkerOpen(w)
       \/ WorkerLog(w)
       \/ WorkerAttempt(w)
       \/ WorkerCheckMax(w)
       \/ SteadyExcept(w)
       \/ WorkerFinally(w)
    /\ UNCHANGED <<raceVars, dbVars, auxVars>>

NextSteady ==
    \/ SteadyMainStep
    \/ \E w \in 1..MaxWorkers : SteadyWorkerStep(w)

\* The gate node while A stays in front of the camera
SpecSteady == Init /\ [][NextSteady]_vars

\* The main loop keeps taking frames and every thread of the executor keeps
\* running
SpecSteadyFair ==
    /\ SpecSteady
    /\ WF_vars(SteadyMainStep)
    /\ \A w \in 1..MaxWorkers : WF_vars(SteadyWorkerStep(w))

\* The track of A the main loop confirmed in A's second frame, not seen for
\* n frames since
UnseenTrack(n) ==
    [NewTrack(1, [bbox |-> BoxL, landmarks |-> BoxL, emb |-> None])
        EXCEPT !.phase = CONFIRMED, !.hits = 2, !.time_since_update = n]

\* The frames after A left: nobody before the gate, or A back
LostScenes == {<<>>, <<Face(PersonA, BoxL)>>}

\* The node where A stood before the gate for two frames and has been gone
\* for max_age - 1 frames: the task submitted for A's track is still in
\* the executor's queue (the update() calls are counted from here).
InitLost ==
    /\ params = MainParams
    /\ tracks = <<UnseenTrack(MainParams.max_age - 1)>>
    /\ next_id = 2
    /\ stats = [tracks_created |-> 1, tracks_confirmed |-> 1, tracks_recognized |-> 0,
                authorized_count |-> 0, wanted_count |-> 0, unknown_count |-> 0]
    /\ frames = 0
    /\ trail = <<<<TENTATIVE, CONFIRMED>>>>
    /\ marks = <<0>>
    /\ InitGateState
    /\ main_pc = "frame"
    /\ cur_frame = <<>>
    /\ todo = <<>>
    /\ pending = {1}
    /\ task_queue = <<[track_id |-> 1, frame |-> <<Face(PersonA, BoxL)>>]>>
    /\ workers = [w \in 1..MaxWorkers |-> IdleWorker]
    /\ opened = <<0>>
    /\ lost = {}
    /\ access_events = <<>>
    /\ InitRaceState
    /\ InitDbState
    /\ InitAuxState

NextLost ==
    \/ /\ \E frame \in LostScenes : MainUpdate(frame)
       /\ UNCHANGED <<raceVars, dbVars, auxVars>>
    \/ /\ MainList
       /\ UNCHANGED <<raceVars, dbVars, auxVars>>
    \/ /\ MainSkip
       /\ UNCHANGED <<raceVars, dbVars, auxVars>>
    \/ /\ MainSubmit
       /\ UNCHANGED <<raceVars, dbVars, auxVars>>
    \/ /\ \E w \in 1..MaxWorkers : WorkerStart(w)
       /\ UNCHANGED <<raceVars, dbVars, auxVars>>
    \/ /\ \E w \in 1..MaxWorkers : WorkerMark(w)
       /\ UNCHANGED <<raceVars, dbVars, auxVars>>
    \/ /\ \E w \in 1..MaxWorkers : WorkerOpen(w)
       /\ UNCHANGED <<raceVars, dbVars, auxVars>>
    \/ /\ \E w \in 1..MaxWorkers : WorkerLog(w)
       /\ UNCHANGED <<raceVars, dbVars, auxVars>>
    \/ /\ \E w \in 1..MaxWorkers : WorkerAttempt(w)
       /\ UNCHANGED <<raceVars, dbVars, auxVars>>
    \/ /\ \E w \in 1..MaxWorkers : WorkerCheckMax(w)
       /\ UNCHANGED <<raceVars, dbVars, auxVars>>
    \/ /\ \E w \in 1..MaxWorkers : WorkerExcept(w)
       /\ UNCHANGED <<raceVars, dbVars, auxVars>>
    \/ /\ \E w \in 1..MaxWorkers : WorkerFinally(w)
       /\ UNCHANGED <<raceVars, dbVars, auxVars>>

\* The node from the moment a track with a task in the queue is about to
\* time out
SpecLost == InitLost /\ [][NextLost]_vars

\* Faces and versions a caller of the database may pass
ApiItems == {ItemF1, ItemF2, ItemF4}
ApiVersions == {IntV(7), StrV(V1)}

InitFaceDb ==
    /\ params = MainParams
    /\ InitTrackerState
    /\ InitGateState
    /\ InitNodeState
    /\ InitRaceState
    /\ InitDbState
    /\ InitAuxState

NextFaceDb ==
    \/ /\ \E item \in ApiItems : DbAddFace(item)
       /\ UNCHANGED <<trackerVars, gateVars, nodeVars, raceVars, auxVars>>
    \/ /\ \E id \in FaceIds : DbRemoveFace(id)
       /\ UNCHANGED <<trackerVars, gateVars, nodeVars, raceVars, auxVars>>
    \/ /\ \E v \in ApiVersions : DbSetVersion(v)
       /\ UNCHANGED <<trackerVars, gateVars, nodeVars, raceVars, auxVars>>
    \/ /\ SaveOpen
       /\ UNCHANGED <<trackerVars, gateVars, nodeVars, raceVars, auxVars>>
    \/ /\ SaveWrite
       /\ UNCHANGED <<trackerVars, gateVars, nodeVars, raceVars, auxVars>>
    \/ /\ DbCrash
       /\ UNCHANGED <<trackerVars, gateVars, nodeVars, raceVars, auxVars>>
    \/ /\ DbRestart
       /\ UNCHANGED <<trackerVars, gateVars, nodeVars, raceVars, auxVars>>
    \/ /\ DbReopen
       /\ UNCHANGED <<trackerVars, gateVars, nodeVars, raceVars, auxVars>>

\* The face database called in any order, with crashes and restarts
SpecFaceDb == InitFaceDb /\ [][NextFaceDb]_vars

SyncStep ==
    \/ SyncRequest
    \/ SyncFail
    \/ \E r \in Responses : SyncReceive(r)
    \/ SyncRemove
    \/ SyncAdd
    \/ SyncSave

NextSync ==
    \/ /\ SyncRequest
       /\ UNCHANGED <<trackerVars, gateVars, nodeVars, raceVars, auxVars>>
    \/ /\ SyncFail
       /\ UNCHANGED <<trackerVars, gateVars, nodeVars, raceVars, auxVars>>
    \/ /\ \E r \in Responses : SyncReceive(r)
       /\ UNCHANGED <<trackerVars, gateVars, nodeVars, raceVars, auxVars>>
    \/ /\ SyncRemove
       /\ UNCHANGED <<trackerVars, gateVars, nodeVars, raceVars, auxVars>>
    \/ /\ SyncAdd
       /\ UNCHANGED <<trackerVars, gateVars, nodeVars, raceVars, auxVars>>
    \/ /\ SyncSave
       /\ UNCHANGED <<trackerVars, gateVars, nodeVars, raceVars, auxVars>>

\* The sync thread against a backend that answers anything or not at all
SpecSync == InitFaceDb /\ [][NextSync]_vars

\* The sync loop keeps running: a round that is due starts, and a round
\* under way goes on
SpecSyncFair ==
    SpecSync /\ WF_vars(SyncStep /\ UNCHANGED <<trackerVars, gateVars, nodeVars, raceVars, auxVars>>)

\* The track of a face confirmed in its second frame and marked with status
MarkedTrack(status) ==
    MarkRecognized(UnseenTrack(0), IF status = UNKNOWN THEN None ELSE "F1", status,
                   IF status = UNKNOWN THEN 0 ELSE 80)

\* The node when the recognition task of the one face before the gate has
\* just marked its track
InitAlert ==
    /\ params = MainParams
    /\ \E status \in {AUTHORIZED, WANTED, UNKNOWN} :
          /\ tracks = <<MarkedTrack(status)>>
          /\ stats = [tracks_created |-> 1, tracks_confirmed |-> 1, tracks_recognized |-> 1,
                      authorized_count |-> IF status = AUTHORIZED THEN 1 ELSE 0,
                      wanted_count |-> IF status = WANTED THEN 1 ELSE 0,
                      unknown_count |-> IF status = UNKNOWN THEN 1 ELSE 0]
    /\ next_id = 2
    /\ frames = 2
    /\ trail = <<<<TENTATIVE, CONFIRMED, RECOGNIZED>>>>
    /\ marks = <<1>>
    /\ InitGateState
    /\ InitNodeState
    /\ InitRaceState
    /\ InitDbState
    /\ InitAuxState

\* The face stays before the gate: the main loop puts frame after frame with
\* the overlay of its track, while time passes
NextAlert ==
    \/ /\ PutFrame(tracks[1].status)
       /\ UNCHANGED <<trackerVars, gateVars, nodeVars, raceVars, dbVars, auxButAlert>>
    \/ /\ Tick
       /\ UNCHANGED <<trackerVars, gateVars, nodeVars, raceVars, dbVars, auxButAlert>>

SpecAlert == InitAlert /\ [][NextAlert]_vars

NextRender ==
    \/ /\ \E status \in {UNKNOWN, WANTED}, track_id \in 1..MaxAlertTracks :
             ShowAlert(status, track_id)
       /\ UNCHANGED <<trackerVars, gateVars, nodeVars, raceVars, dbVars, auxButRender>>
    \/ /\ CleanupExpiredAlerts
       /\ UNCHANGED <<trackerVars, gateVars, nodeVars, raceVars, dbVars, auxButRender>>
    \/ /\ RenderAlertMode
       /\ UNCHANGED <<trackerVars, gateVars, nodeVars, raceVars, dbVars, auxButRender>>

\* The display in alert mode: alerts come, expire and are drawn
SpecRender == InitTracker /\ [][NextRender]_vars

InitTrigger ==
    /\ params = MainParams
    /\ InitTrackerState
    /\ InitGateState
    /\ InitNodeState
    /\ InitRaceState
    /\ InitDbState
    /\ ids_created = <<>>
    /\ engine = ConfiguredEngine
    /\ decided = NoCall
    /\ InitAlertState
    /\ InitCaptureState
    /\ InitShutdownState
    /\ InitStartState
    /\ InitCooldownState
    /\ InitQuitState
    /\ InitRenderState
    /\ \E enabled \in BOOLEAN : trig = NewAlarmSystem(enabled)

NextTrigger ==
    \/ /\ \E c \in TriggerCallers, kind \in AlarmTypes, force \in BOOLEAN :
             TriggerEnter(c, kind, force)
       /\ UNCHANGED <<trackerVars, gateVars, nodeVars, raceVars, dbVars, auxButTrigger>>
    \/ /\ \E c \in TriggerCallers : TriggerLocked(c)
       /\ UNCHANGED <<trackerVars, gateVars, nodeVars, raceVars, dbVars, auxButTrigger>>
    \/ /\ TriggerTick
       /\ UNCHANGED <<trackerVars, gateVars, nodeVars, raceVars, dbVars, auxButTrigger>>

\* The alarm system with threads calling trigger() at any time
SpecTrigger == InitTrigger /\ [][NextTrigger]_vars

NextCapture ==
    \/ /\ CaptureRead
       /\ UNCHANGED <<trackerVars, gateVars, nodeVars, raceVars, dbVars, auxButCapture>>
    \/ /\ CaptureAiFull
       /\ UNCHANGED <<trackerVars, gateVars, nodeVars, raceVars, dbVars, auxButCapture>>
    \/ /\ CaptureAiDrop
       /\ UNCHANGED <<trackerVars, gateVars, nodeVars, raceVars, dbVars, auxButCapture>>
    \/ /\ CaptureAiPut
       /\ UNCHANGED <<trackerVars, gateVars, nodeVars, raceVars, dbVars, auxButCapture>>
    \/ /\ CaptureStream
       /\ UNCHANGED <<trackerVars, gateVars, nodeVars, raceVars, dbVars, auxButCapture>>
    \/ /\ GetAiFrame
       /\ UNCHANGED <<trackerVars, gateVars, nodeVars, raceVars, dbVars, auxButCapture>>
    \/ /\ GetStreamFrame
       /\ UNCHANGED <<trackerVars, gateVars, nodeVars, raceVars, dbVars, auxButCapture>>

\* The capture thread against the main loop and the stream consumers
SpecCapture == InitTracker /\ [][NextCapture]_vars

InitStart ==
    /\ params = MainParams
    /\ InitTrackerState
    /\ InitGateState
    /\ InitNodeState
    /\ InitRaceState
    /\ InitDbState
    /\ ids_created = <<>>
    /\ engine = ConfiguredEngine
    /\ decided = NoCall
    /\ InitAlertState
    /\ InitCaptureState
    /\ InitShutdownState
    /\ \E gpio \in BOOLEAN, display \in BOOLEAN, stream \in BOOLEAN :
          boot = NewNode(gpio, display, stream)
    /\ InitTriggerState
    /\ InitRenderState
    /\ InitQuitState
    /\ InitCooldownState

NextStart ==
    \/ /\ \E ok \in BOOLEAN : InitStorage(ok)
       /\ UNCHANGED <<trackerVars, gateVars, nodeVars, raceVars, dbVars, auxButStart>>
    \/ /\ \E ok \in BOOLEAN : InitVision(ok)
       /\ UNCHANGED <<trackerVars, gateVars, nodeVars, raceVars, dbVars, auxButStart>>
    \/ /\ \E ok \in BOOLEAN : InitGateStep(ok)
       /\ UNCHANGED <<trackerVars, gateVars, nodeVars, raceVars, dbVars, auxButStart>>
    \/ /\ InitCameraStart
       /\ UNCHANGED <<trackerVars, gateVars, nodeVars, raceVars, dbVars, auxButStart>>
    \/ /\ CaptureThreadOpen
       /\ UNCHANGED <<trackerVars, gateVars, nodeVars, raceVars, dbVars, auxButStart>>
    \/ /\ CaptureThreadOpenFails
       /\ UNCHANGED <<trackerVars, gateVars, nodeVars, raceVars, dbVars, auxButStart>>
    \/ /\ InitCameraWait
       /\ UNCHANGED <<trackerVars, gateVars, nodeVars, raceVars, dbVars, auxButStart>>
    \/ /\ InitAlarm
       /\ UNCHANGED <<trackerVars, gateVars, nodeVars, raceVars, dbVars, auxButStart>>
    \/ /\ \E ok \in BOOLEAN, made \in 0..2 : InitThreads(ok, made)
       /\ UNCHANGED <<trackerVars, gateVars, nodeVars, raceVars, dbVars, auxButStart>>
    \/ /\ StartSync
       /\ UNCHANGED <<trackerVars, gateVars, nodeVars, raceVars, dbVars, auxButStart>>
    \/ /\ StartUi
       /\ UNCHANGED <<trackerVars, gateVars, nodeVars, raceVars, dbVars, auxButStart>>
    \/ /\ StartStream
       /\ UNCHANGED <<trackerVars, gateVars, nodeVars, raceVars, dbVars, auxButStart>>
    \/ /\ MainExit
       /\ UNCHANGED <<trackerVars, gateVars, nodeVars, raceVars, dbVars, auxButStart>>
    \/ /\ StopWorkers
       /\ UNCHANGED <<trackerVars, gateVars, nodeVars, raceVars, dbVars, auxButStart>>
    \/ /\ StopCapture
       /\ UNCHANGED <<trackerVars, gateVars, nodeVars, raceVars, dbVars, auxButStart>>
    \/ /\ StopGate
       /\ UNCHANGED <<trackerVars, gateVars, nodeVars, raceVars, dbVars, auxButStart>>
    \/ /\ StopLogger
       /\ UNCHANGED <<trackerVars, gateVars, nodeVars, raceVars, dbVars, auxButStart>>

\* The node from main() to its exit
SpecStart == InitStart /\ [][NextStart]_vars

InitQuit ==
    /\ params = MainParams
    /\ InitTrackerState
    /\ InitGateState
    /\ InitNodeState
    /\ InitRaceState
    /\ InitDbState
    /\ ids_created = <<>>
    /\ engine = ConfiguredEngine
    /\ decided = NoCall
    /\ InitAlertState
    /\ InitCaptureState
    /\ InitShutdownState
    /\ InitStartState
    /\ InitTriggerState
    /\ InitRenderState
    /\ InitCooldownState
    /\ \E k \in 1..Len(DisplayModes), fullscreen \in BOOLEAN :
          quit = StartedNode(DisplayModes[k], fullscreen)

QuitUiStep ==
    /\ \E key \in Keys : UiRender(key)
    /\ UNCHANGED <<trackerVars, gateVars, nodeVars, raceVars, dbVars, auxButQuit>>

QuitMainStep ==
    /\ \/ MainTest
       \/ \E got \in BOOLEAN : MainGetFrame(got)
       \/ MainProcess
       \/ MainPutFrame
       \/ MainFinally
    /\ UNCHANGED <<trackerVars, gateVars, nodeVars, raceVars, dbVars, auxButQuit>>

NextQuit ==
    \/ /\ \E key \in Keys : UiRender(key)
       /\ UNCHANGED <<trackerVars, gateVars, nodeVars, raceVars, dbVars, auxButQuit>>
    \/ /\ MainTest
       /\ UNCHANGED <<trackerVars, gateVars, nodeVars, raceVars, dbVars, auxButQuit>>
    \/ /\ \E got \in BOOLEAN : MainGetFrame(got)
       /\ UNCHANGED <<trackerVars, gateVars, nodeVars, raceVars, dbVars, auxButQuit>>
    \/ /\ MainProcess
       /\ UNCHANGED <<trackerVars, gateVars, nodeVars, raceVars, dbVars, auxButQuit>>
    \/ /\ MainPutFrame
       /\ UNCHANGED <<trackerVars, gateVars, nodeVars, raceVars, dbVars, auxButQuit>>
    \/ /\ RunRaises
       /\ UNCHANGED <<trackerVars, gateVars, nodeVars, raceVars, dbVars, auxButQuit>>
    \/ /\ MainFinally
       /\ UNCHANGED <<trackerVars, gateVars, nodeVars, raceVars, dbVars, auxButQuit>>
    \/ /\ Signal
       /\ UNCHANGED <<trackerVars, gateVars, nodeVars, raceVars, dbVars, auxButQuit>>

\* The display and the main loop of a started node
SpecQuit == InitQuit /\ [][NextQuit]_vars

\* The UI thread and the main thread keep running; no signal has to arrive
\* and no exception has to be raised
SpecQuitFair == SpecQuit /\ WF_vars(QuitUiStep) /\ WF_vars(QuitMainStep)

\* access_logger.log_access(gate_id=..., track_id=..., status=..., decision=...,
\* confidence=...), called by any thread
LogEvent(track_id, status, decision) ==
    /\ Len(access_events) < MaxEvents
    /\ LET kw == [gate_id |-> "gate", track_id |-> track_id, status |-> status,
                  decision |-> decision, confidence |-> 0]
       IN  /\ LogAccessBinds(kw)
           /\ access_events' = LogAccess(access_events, kw)
    /\ UNCHANGED nodeButLog

NextUpload ==
    \/ /\ \E st \in {AUTHORIZED, UNKNOWN} : LogEvent(1, st, IF st = UNKNOWN THEN "CLOSE" ELSE "OPEN")
       /\ UNCHANGED <<trackerVars, gateVars, raceVars, dbVars, auxVars>>
    \/ /\ SyncRequest
       /\ UNCHANGED <<trackerVars, gateVars, nodeVars, raceVars, auxVars>>
    \/ /\ SyncFail
       /\ UNCHANGED <<trackerVars, gateVars, nodeVars, raceVars, auxVars>>
    \/ /\ \E r \in Responses : SyncReceive(r)
       /\ UNCHANGED <<trackerVars, gateVars, nodeVars, raceVars, auxVars>>
    \/ /\ SyncRemove
       /\ UNCHANGED <<trackerVars, gateVars, nodeVars, raceVars, auxVars>>
    \/ /\ SyncAdd
       /\ UNCHANGED <<trackerVars, gateVars, nodeVars, raceVars, auxVars>>
    \/ /\ SyncSave
       /\ UNCHANGED <<trackerVars, gateVars, nodeVars, raceVars, auxVars>>

\* The access log written to while the sync thread runs: SyncThread.run
\* calls _sync_faces and nothing else
SpecUpload == InitFaceDb /\ [][NextUpload]_vars

\* The sync loop keeps running
SpecUploadFair ==
    SpecUpload /\ WF_vars(SyncStep /\ UNCHANGED <<trackerVars, gateVars, nodeVars, raceVars, auxVars>>)

----------------------------------------------------------------------------
(* Claims about the tracker *)

LiveIds == {tracks[i].track_id : i \in 1..Len(tracks)}

\* The swap resets in a phase trail: its steps from RECOGNIZED to CONFIRMED
SwapResets(tr) ==
    Cardinality({k \in 1..(Len(tr) - 1) : tr[k] = RECOGNIZED /\ tr[k + 1] = CONFIRMED})

PhaseSteps ==
    {<<TENTATIVE, CONFIRMED>>, <<CONFIRMED, RECOGNIZED>>, <<RECOGNIZED, CONFIRMED>>}

\* C8: the phases of every track are a prefix of TENTATIVE -> CONFIRMED ->
\* RECOGNIZED, but for the swap reset RECOGNIZED -> CONFIRMED (which clears
\* the identity); no track goes from TENTATIVE to RECOGNIZED directly.
C8_PhaseOrder ==
    \A id \in LiveIds :
        /\ trail[id][1] = TENTATIVE
        /\ \A k \in 1..(Len(trail[id]) - 1) :
              <<trail[id][k], trail[id][k + 1]>> \in PhaseSteps
        /\ (GetTrack(tracks, id).phase = CONFIRMED /\ ~GetTrack(tracks, id).recognized)
              => (GetTrack(tracks, id).face_id = None /\ GetTrack(tracks, id).status = None)

----------------------------------------------------------------------------
(* Claims about the gate controller *)

\* C3: after an open() that extends an OPEN gate, the gate stays OPEN until
\* the timer that call started closes it (or close() is called): no timer an
\* extend superseded closes the gate.
C3_SupersededTimerNeverCloses ==
    [][\A k \in 1..Len(timers) :
          (/\ timers[k] = "firing"
           /\ timers'[k] = "done"
           /\ gate_is_open
           /\ ~gate_is_open'
           /\ Len(timers) \in extends)
          => k = Len(timers)]_vars

\* A timer that can still close the gate
LiveTimers == {k \in 1..Len(timers) : timers[k] \in {"waiting", "firing"}}

\* C4: after every open() the relay returns to the inactive state: an OPEN
\* gate always has a timer that will close it, each open() starts the
\* countdown anew, and the gate never stays OPEN for ever.
C4_GateEventuallyCloses ==
    /\ [](gate_is_open => (LiveTimers # {} /\ relay = "on"))
    /\ [](close_timer # 0 => timers[close_timer] \in {"waiting", "firing"})
    /\ (gate_is_open ~> (~gate_is_open /\ relay = "off"))

\* C4 witness: the gate was opened, extended, and closed by the timer of the
\* last open().
C4_Witness ==
    /\ ~gate_is_open
    /\ relay = "off"
    /\ Len(timers) >= 2
    /\ Len(timers) \in extends
    /\ timers[Len(timers)] = "done"

----------------------------------------------------------------------------
(* Claims about the node *)

\* C1: the gate controller's open is invoked only with the decision
\* AUTHORIZED or WANTED: no recognition thread is about to call open_gate
\* with the decision UNKNOWN, and every open_gate call counted was counted
\* as an authorized or a wanted one.
C1_OpenOnlyWhenGranted ==
    /\ \A w \in 1..MaxWorkers :
          workers[w].pc = "open" => workers[w].decision \in {AUTHORIZED, WANTED}
    /\ gate_stats.total_opens = gate_stats.authorized_opens + gate_stats.wanted_opens

\* C2: the gate's open operation is invoked at most once for a track that
\* was recognized once (never reset by swap detection), under every
\* interleaving of the main loop and the recognition threads.
C2_OpenedOncePerTrack ==
    \A id \in 1..Len(opened) : SwapResets(trail[id]) = 0 => opened[id] <= 1

\* The recognition tasks for a track that are queued or running
TasksFor(track_id) ==
    Cardinality({i \in 1..Len(task_queue) : task_queue[i].track_id = track_id})
    + Cardinality({w \in 1..MaxWorkers :
                      workers[w].pc # "idle" /\ workers[w].track_id = track_id})

\* C5: at every instant at most one recognition task for a track_id is
\* queued or running, and the track_id of a queued or running task is in the
\* pending set (so the main loop does not submit it again).
C5_OneTaskPerTrack ==
    \A id \in 1..next_id :
        /\ TasksFor(id) <= 1
        /\ TasksFor(id) = 1 <=> id \in pending

\* C5 witness: the main loop comes to a track of its list while a thread is
\* running that track's task, and a second thread runs another track's.
C5_Witness ==
    /\ main_pc = "loop"
    /\ \E w \in 1..MaxWorkers :
          workers[w].pc # "idle" /\ workers[w].track_id = Head(todo)
    /\ \A w \in 1..MaxWorkers : workers[w].pc # "idle"

\* The person a track is tracking: whose face, in the frame last processed,
\* the track was matched to
TrackedPersons(t) ==
    {cur_frame[i].person : i \in {j \in 1..Len(cur_frame) :
                                     t.time_since_update = 0 /\ cur_frame[j].bbox = t.bbox}}

\* C9: when a frame comes in which another person has taken the position of
\* a track that is RECOGNIZED as person p and was tracking p, the update
\* resets the track: it is unrecognized, with its identity cleared (and so
\* never keeps p's identity while the other person is tracked).
C9_SwapResetsIdentity ==
    [][\A i \in 1..Len(tracks) : \A p \in Enrolled :
          (/\ frames' = frames + 1
           /\ tracks[i].recognized
           /\ tracks[i].face_id = FaceOf(p).face_id
           /\ HasTrack(tracks', tracks[i].track_id)
           /\ GetTrack(tracks', tracks[i].track_id).time_since_update = 0
           /\ \E j \in 1..Len(cur_frame') :
                 /\ cur_frame'[j].bbox = GetTrack(tracks', tracks[i].track_id).bbox
                 /\ cur_frame'[j].person # p)
          => (/\ ~GetTrack(tracks', tracks[i].track_id).recognized
              /\ GetTrack(tracks', tracks[i].track_id).face_id = None)]_vars

\* C10: an unrecognised track never has more than max_attempts attempts,
\* and a recognition run never ends (reaches its finally clause) with its
\* track unrecognised and at max_attempts or beyond.
C10_AttemptsBounded ==
    /\ \A i \in 1..Len(tracks) :
          ~tracks[i].recognized => tracks[i].recognition_attempts <= MaxRecognitionAttempts
    /\ \A w \in 1..MaxWorkers :
          (/\ workers[w].pc = "finally"
           /\ HasTrack(tracks, workers[w].track_id)
           /\ ~GetTrack(tracks, workers[w].track_id).recognized)
          => GetTrack(tracks, workers[w].track_id).recognition_attempts
                < MaxRecognitionAttempts

\* A recognition thread takes a step for a track that is not in the tracker
LostWorkerStep(w) ==
    /\ workers[w].pc # "idle"
    /\ workers'[w] # workers[w]
    /\ ~HasTrack(tracks, workers[w].track_id)

\* C11: a recognition thread whose track is no longer in the tracker
\* discards its result: none of its steps opens the gate or changes a
\* track.
C11_LostResultDiscarded ==
    [][\A w \in 1..MaxWorkers :
          LostWorkerStep(w) => UNCHANGED <<gateVars, tracks>>]_vars

\* C12: a thread's mark and the main thread's update exclude each other, so
\* once no thread is inside update_track_recognition every live track has
\* recognized = true exactly when its phase is RECOGNIZED, whatever update
\* did (swap reset, removal) while the mark was under way.
C12_MarkExcludesUpdate ==
    marker.pc = "idle" =>
        \A id \in LiveIds :
            GetTrack(tracks, id).recognized = (GetTrack(tracks, id).phase = RECOGNIZED)

----------------------------------------------------------------------------
(* Claims about the face database and its sync *)

\* The last sync round
LastRound == rounds[Len(rounds)]

\* The files hold what the database holds in memory
Persisted(db, files) ==
    /\ files.metadata = CompleteFile(SavedContent(db, "metadata"))
    /\ DOMAIN db.index # {} => files.index = CompleteFile(SavedContent(db, "index"))
    /\ files.version = CompleteFile(SavedContent(db, "version"))

\* C13: once a sync round whose response carried upserts or deletes and the
\* version V has been applied, the face index is on disk and get_version()
\* is V, so the request of the next round carries since = V.
C13_AppliedRoundPersistsVersion ==
    (sync.pc \in {"idle", "waiting"} /\ rounds # <<>> /\ HasChanges(LastRound)) =>
        /\ Persisted(face_db, disk)
        /\ GetVersion(face_db) = StrV(LastRound.version)
        /\ sync.pc = "waiting" => sync.since = LastRound.version

\* The metadata a face id has in the database
MetadataOf(db, face_id) == db.metadata[db.face_id_to_idx[face_id]]

\* C14: from an empty index, after a first round with the upserts F1, F2, F3
\* and a second round with the upsert of the updated F2 and the delete of
\* F3, count() is 2, no search with F3's embedding returns a match, and
\* F2's metadata is the updated one.
C14_TwoRoundScenario ==
    (sync.pc = "idle" /\ rounds = <<Round1, Round2>>) =>
        /\ Count(face_db) = 2
        /\ \A k \in 1..MaxK :
              DbSearch(face_db, ItemF3.embedding, SearchThreshold, k) = {<<>>}
        /\ "F2" \in DOMAIN face_db.face_id_to_idx
        /\ MetadataOf(face_db, "F2") =
              [face_id |-> "F2", user_id |-> ItemF2Updated.person_id,
               name |-> ItemF2Updated.full_name, status |-> ItemF2Updated.status]

\* C14 witness: the two rounds of the scenario have been applied, in that
\* order, from the empty index.
C14_Witness ==
    /\ sync.pc = "idle"
    /\ rounds = <<Round1, Round2>>
    /\ "F3" \notin DOMAIN face_db.face_id_to_idx
    /\ DOMAIN face_db.index = {0, 1, 2}

\* The records the database stores that lie within the threshold of a query
StoredWithin(db, query, threshold) ==
    {l \in (DOMAIN db.metadata) \cap (DOMAIN db.index) :
        CosDist(db.index[l], query) <= threshold}

\* C15: every result search(query, k) may return lists, nearest first, the
\* up to k nearest records that are stored and within the threshold: each
\* face id in it is stored (a removed one is never returned), it is as long
\* as k and the stored records within the threshold allow (a removed record
\* takes no place from a stored one), and no stored record left out is
\* nearer than one returned.
C15_SearchReturnsNearestStored ==
    db_pc = Ready =>
    \A query \in Embeddings, k \in 1..MaxK :
      \A res \in DbSearch(face_db, query, SearchThreshold, k) :
        /\ \A i, j \in 1..Len(res) : i < j => res[i].distance <= res[j].distance
        /\ \A i \in 1..Len(res) : res[i].face_id \in DOMAIN face_db.face_id_to_idx
        /\ Len(res) = Min2(k, Cardinality(StoredWithin(face_db, query, SearchThreshold)))
        /\ \A l \in StoredWithin(face_db, query, SearchThreshold) :
              (\A i \in 1..Len(res) : res[i].face_id # face_db.metadata[l].face_id) =>
                 \A i \in 1..Len(res) :
                    res[i].distance <= CosDist(face_db.index[l], query)

\* What the searches of the recognition threads get from a database
Observed(db) == [query \in Embeddings |-> DbSearch(db, query, SearchThreshold, 1)]

\* C16: a search that runs while a sync round is under way never observes a
\* batch applied in part: what it gets is what it would get before the
\* batch or after the whole batch.
C16_SearchSeesWholeBatches ==
    Observed(face_db) \in {Observed(db_before),
                           Observed(ApplyResponse(db_before, sync.response))}

\* C17: a round that ends in a network error leaves the index, the version
\* and the files as they were and records the failure in the status; the
\* loop keeps running, so a later round retries.
C17_NetworkErrorIsSurvived ==
    /\ [][rounds' = Append(rounds, NoResponse) =>
            /\ face_db' = face_db
            /\ disk' = disk
            /\ ~sync'.last_sync_success
            /\ sync'.sync_error # None]_vars
    /\ (sync.pc = "idle" /\ rounds # <<>> /\ LastRound = NoResponse
            /\ Len(rounds) < MaxRounds)
          ~> (sync.pc = "waiting")

\* C17 witness: after a round that succeeded and a round that failed on the
\* network, with faces in the index, the next round's request is out.
C17_Witness ==
    /\ sync.pc = "waiting"
    /\ Len(rounds) = 2
    /\ rounds[1].ok
    /\ rounds[2] = NoResponse
    /\ ~sync.last_sync_success
    /\ Count(face_db) > 0

\* C18: after set_version(V) with an opaque string V, a new FaceDatabase over
\* the same files returns V from get_version().
C18_VersionSurvivesReopen ==
    [][(/\ db_pc = Ready
        /\ db_pc' = Ready
        /\ face_db.current_version.type = "str"
        /\ face_db' = Load(disk))
          => GetVersion(face_db') = GetVersion(face_db)]_vars

\* C19: the save is atomic: after a crash every file of the database holds
\* complete content, the previous or the new, never part of it.
C19_SaveIsAtomic ==
    db_pc = Crashed =>
        \A file \in {"metadata", "index", "version"} : disk[file].state # "partial"

\* What a caller can see of a database: the count, the ids, the metadata of
\* every id and the results of every search
Observable(db) ==
    [count |-> Count(db),
     ids |-> DOMAIN db.face_id_to_idx,
     metadata |-> [id \in DOMAIN db.face_id_to_idx |-> MetadataOf(db, id)],
     search |-> [query \in Embeddings |->
                   [k \in 1..MaxK |-> DbSearch(db, query, SearchThreshold, k)]]]

\* C20: a round that applies the response the round before it applied
\* leaves the database as that round left it: the same count, ids, metadata
\* and search results.
C20_SameResponseTwice ==
    (/\ sync.pc = "idle"
     /\ Len(rounds) >= 2
     /\ LastRound.ok
     /\ rounds[Len(rounds) - 1] = LastRound)
        => Observable(face_db) = Observable(db_before)

\* C20 witness: a response with an upsert and a delete has been applied
\* twice in a row to an index that held the deleted face.
C20_Witness ==
    /\ sync.pc = "idle"
    /\ rounds = <<Round1, Round3, Round3>>
    /\ Count(face_db) = 3

----------------------------------------------------------------------------
(* More claims about the tracker *)

\* The timeout of a track by its phase: 3 frames if TENTATIVE, 5 frames if
\* RECOGNIZED, max_age if CONFIRMED
PhaseTimeout(t, p) ==
    IF t.phase = TENTATIVE THEN TentativeTimeout
    ELSE IF t.phase = RECOGNIZED THEN RecognizedTimeout
    ELSE p.max_age

\* C21: an update removes a track exactly when its time_since_update
\* exceeds the timeout of its phase: every track it drops had, after ageing,
\* gone unmatched longer than the timeout, and no track it keeps has.
C21_RemovedExactlyOnTimeout ==
    [][frames' = frames + 1 =>
          /\ \A i \in 1..Len(tracks) :
                ~HasTrack(tracks', tracks[i].track_id) =>
                   tracks[i].time_since_update + 1 > PhaseTimeout(tracks[i], params)
          /\ \A i \in 1..Len(tracks') :
                tracks'[i].time_since_update <= PhaseTimeout(tracks'[i], params)]_vars

\* C22: track ids are assigned in strictly increasing order and never
\* reused: of any two tracks a tracker instance ever created, the later one
\* has the greater track_id.
C22_IdsNeverReused ==
    \A i, j \in 1..Len(ids_created) : i < j => ids_created[i] < ids_created[j]

\* The ids of the tracks of a list
IdsOf(trks) == {trks[i].track_id : i \in 1..Len(trks)}

\* The tracks a step created, promoted from TENTATIVE, and marked recognized
StepCreated == IdsOf(tracks') \ (1..(next_id - 1))
StepPromoted ==
    {id \in IdsOf(tracks) \cap IdsOf(tracks') :
        GetTrack(tracks, id).phase = TENTATIVE /\ GetTrack(tracks', id).phase = CONFIRMED}
StepMarked ==
    {id \in IdsOf(tracks) \cap IdsOf(tracks') :
        ~GetTrack(tracks, id).recognized /\ GetTrack(tracks', id).recognized}

\* Track 1 is the only track ever created, was matched in every update and
\* went from TENTATIVE to CONFIRMED to RECOGNIZED as far as it got: one
\* face continuously present
SingleFacePresent ==
    /\ next_id = 2
    /\ HasTrack(tracks, 1)
    /\ GetTrack(tracks, 1).hits = frames
    /\ Len(trail[1]) <= 3
    /\ trail[1] = SubSeq(<<TENTATIVE, CONFIRMED, RECOGNIZED>>, 1, Len(trail[1]))

----------------------------------------------------------------------------
(* Claims about the decision engine *)

\* C24: make_decision is a function of (match_found, status, confidence,
\* thresholds) and changes nothing: no match gives UNKNOWN; status WANTED
\* (in any letter case) with confidence at or above the wanted threshold
\* gives WANTED; status AUTHORIZED (in any letter case) with confidence at or
\* above the authorised threshold gives AUTHORIZED; everything else gives
\* UNKNOWN.
C24_DecisionTable ==
    decided # NoCall =>
       decided.ret =
          IF decided.match_found /\ decided.status \in {"WANTED", "Wanted"}
                /\ decided.confidence >= engine.wanted_confidence_threshold
          THEN WANTED
          ELSE IF decided.match_found /\ decided.status \in {"AUTHORIZED", "authorized"}
                     /\ decided.confidence >= engine.confidence_threshold
          THEN AUTHORIZED
          ELSE UNKNOWN

\* C24 witness: a WANTED match at a confidence between the two thresholds of
\* the default engine was decided WANTED.
C24_Witness ==
    /\ engine = DefaultEngine
    /\ decided.match_found /\ decided.status = "WANTED" /\ decided.confidence = 59
    /\ decided.ret = WANTED

----------------------------------------------------------------------------
(* Claims about the access log *)

\* The rows of the access log written for a track
RowsOf(track_id) == {k \in 1..Len(access_events) : access_events[k].track_id = track_id}

\* C25: every completed recognition decision writes exactly one AccessEvent
\* row: a live track whose recognition tasks have all finished has one row
\* per accepted mark, with decision OPEN when it was recognised as AUTHORIZED
\* or WANTED and CLOSE when it was marked UNKNOWN.
C25_OneRowPerDecision ==
    \A i \in 1..Len(tracks) :
       (tracks[i].recognized /\ tracks[i].track_id \notin pending) =>
          /\ Cardinality(RowsOf(tracks[i].track_id)) = marks[tracks[i].track_id]
          /\ \E k \in RowsOf(tracks[i].track_id) :
                /\ access_events[k].status = tracks[i].status
                /\ access_events[k].decision =
                      IF tracks[i].status \in {AUTHORIZED, WANTED} THEN "OPEN" ELSE "CLOSE"

----------------------------------------------------------------------------
(* Claims about the alerts *)

\* C27: for a track marked UNKNOWN or WANTED that stays continuously in
\* view, exactly one UI alert is raised and the alarm of its kind fires
\* once: from its first frame on, the alert was inserted once and the alarm
\* fired once, however long the track stays.
C27_OneAlertPerStay ==
    (tracks[1].status \in {UNKNOWN, WANTED} /\ ui.shown[1] # Never) =>
       /\ ui.inserted[1] = 1
       /\ alarm.fired[tracks[1].status] = 1

----------------------------------------------------------------------------
(* Claims about the capture thread *)

\* The frames in a queue
FramesIn(q) == {q[i] : i \in 1..Len(q)}

\* C28: get_ai_frame hands frames out in strictly increasing capture order;
\* a frame the producer discarded was older than every frame left in the AI
\* queue; no captured frame failed to be enqueued, and once a frame is
\* distributed the most recently captured frame is in the queue or was
\* handed out, under any interleaving of producer and consumer.
C28_NewestFrameKept ==
    /\ \A i, j \in 1..Len(ai_log.handed) : i < j => ai_log.handed[i] < ai_log.handed[j]
    /\ \A d \in ai_log.discarded : \A f \in FramesIn(capture.ai_queue) : d < f
    /\ ai_log.refused = {}
    /\ (capture.pc \in {"stream", "read"} /\ capture.frames_captured > 0) =>
          capture.frames_captured \in FramesIn(capture.ai_queue) \cup FramesIn(ai_log.handed)
    /\ ai_log.discarded \cap FramesIn(ai_log.handed) = {}

\* C28 witness: the producer found the AI queue full and discarded a frame
\* while the consumer took one, and the newest frame is in the queue.
C28_Witness ==
    /\ ai_log.discarded # {}
    /\ Len(ai_log.handed) >= 2
    /\ capture.pc = "read"
    /\ capture.frames_captured \in FramesIn(capture.ai_queue)
    /\ capture.frames_dropped_ai = Cardinality(ai_log.discarded)

----------------------------------------------------------------------------
(* Claims about shutdown *)

\* C29: after cleanup() the auto-close timer is cancelled, the relay is at
\* its inactive level (driven off, or its pin released) and the controller
\* reports CLOSED, even if the gate was open when cleanup was called.
C29_CleanupClosesGate ==
    cleaned =>
       /\ \A k \in 1..Len(timers) : timers[k] # "waiting"
       /\ relay \in {"off", "input"}
       /\ GateState = "CLOSED"

\* C30: if start() fails at any step, every resource the earlier steps
\* acquired is released before the process exits: at the exit no capture
\* thread is alive, no camera handle is held and the relay pin is not set
\* up.
C30_FailedStartReleases ==
    boot.pc = "exited" =>
       /\ boot.capture_thread \notin {"starting", "running"}
       /\ ~boot.camera
       /\ ~boot.gpio_pin

\* C31: an open_gate call that arrives within the cooldown (2 s) of the
\* previous open while the gate is still OPEN is not counted as a further
\* open in the counters.
C31_RedundantOpenNotCounted ==
    (open_call.made /\ open_call.was_open /\ open_call.elapsed < GateCooldown) =>
        open_call.counted = 0

\* C32: pressing Q in the display requests shutdown of the node: the main
\* vision loop eventually terminates and the shutdown sequence (stop) runs.
C32_QuitStopsNode ==
    quit.q_pressed ~> (quit.main = "ended" /\ quit.stopped)

\* C33: a track is promoted from TENTATIVE to CONFIRMED as soon as its hits
\* reach min_hits: when an update has returned, no track is TENTATIVE with
\* hits >= min_hits (a track being created with hits = 1).
C33_PromotedAtMinHits ==
    \A i \in 1..Len(tracks) :
        tracks[i].phase = TENTATIVE => tracks[i].hits < params.min_hits

\* C34: the bbox and landmarks a recognition thread uses belong to the same
\* frame as the frame copy it processes: whenever a thread takes a task,
\* what it reads off the Track is the bbox and landmarks of a face of the
\* task's frame copy, even if update() has run since the submission.
C34_WorkerUsesSubmittedBoxes ==
    \A k \in 1..Len(task_queue) :
        \E i \in 1..Len(task_queue[k].frame) :
            /\ task_queue[k].frame[i].bbox = BoxesRead(task_queue[k]).bbox
            /\ task_queue[k].frame[i].landmarks = BoxesRead(task_queue[k]).landmarks

\* C35: with max_age = 0 a track that is not matched in an update is removed
\* no later than the following frame, whatever its phase: no track of the
\* list has gone two updates without a match.
C35_ZeroAgeRemovesAfterMiss ==
    params.max_age = 0 =>
        \A i \in 1..Len(tracks) : tracks[i].time_since_update <= 1

\* C36: active alerts are shown with WANTED before UNKNOWN: whenever more
\* alerts are active than the 4 cells drawn, every active WANTED alert is
\* drawn in preference to any UNKNOWN alert (an UNKNOWN alert is drawn only
\* if every active WANTED alert is).
C36_WantedDrawnFirst ==
    LET drawn == {rendered.drawn[k] : k \in 1..Len(rendered.drawn)}
        active == {rendered.active[k] : k \in 1..Len(rendered.active)}
    IN  Len(rendered.active) > MAX_ALERTS =>
           ((\E a \in drawn : a.status = UNKNOWN) =>
               (\A a \in active : a.status = WANTED => a \in drawn))

\* The calls of trigger() that have returned, in the order they had the lock
TriggerCall(i) == trig.calls[i]
TriggerCalls == 1..Len(trig.calls)

DistantFrom(det, t) ==
    /\ t.recognized
    /\ t.embedding # NoEmbedding
    /\ det.emb # None
    /\ 100 - DotWithMean(t.embedding, det.emb) > SwapThreshold

\* C38: in a tracker whose max_embedding_distance is at most the swap
\* threshold, no track is ever swap-reset, and whatever detections the next
\* update() is given, a detection whose embedding distance to a recognized
\* track's stored embedding exceeds the swap threshold is not assigned to that
\* track; assigned to no track, it starts a new track.
C38_DistantDetectionNotMatched ==
    params.max_embedding_distance <= SwapThreshold =>
        /\ \A id \in 1..Len(trail) : SwapResets(trail[id]) = 0
        /\ \A dets \in ApiDetectionLists :
              \A a \in HungarianAssignments(dets, Predict(tracks), params) :
                 \A d \in 1..Len(dets) : \A i \in 1..Len(tracks) :
                    DistantFrom(dets[d], tracks[i]) =>
                       /\ a[d] # i
                       /\ a[d] = 0 =>
                             LET r == UpdateResult(tracks, next_id, stats, dets, a, params)
                             IN  \E k \in 1..Len(r.tracks) :
                                    /\ r.tracks[k].track_id >= next_id
                                    /\ r.tracks[k].bbox = dets[d].bbox
                                    /\ r.tracks[k].hits = 1

\* C38 witness: a recognized track that stores embeddings of one person was
\* left unmatched by the last update() although a detection overlapped it
\* beyond the IoU threshold, and that detection started a new track.
C38_Witness ==
    /\ params.max_embedding_distance <= SwapThreshold
    /\ \E i, j \in 1..Len(tracks) :
          /\ tracks[i].recognized
          /\ tracks[i].embedding # NoEmbedding
          /\ \A n \in 1..Len(tracks[i].embedding) :
                tracks[i].embedding[n] = tracks[i].embedding[1]
          /\ tracks[i].time_since_update = 1
          /\ tracks[j].track_id > tracks[i].track_id
          /\ tracks[j].hits = 1
          /\ tracks[j].time_since_update = 0
          /\ ComputeIou(tracks[j].bbox, tracks[i].bbox) >= params.iou_threshold
\* C39: a CONFIRMED track that is matched in every frame eventually becomes
\* recognized (with an identity or as UNKNOWN), whatever the outcome of each
\* recognition run, when the main loop and the recognition threads keep
\* running.  (Track 1 is the track of A, the only one the steady scenes make.)
C39_ConfirmedBecomesRecognized ==
    (HasTrack(tracks, 1) /\ GetTrack(tracks, 1).phase = CONFIRMED)
        ~> (HasTrack(tracks, 1) /\ GetTrack(tracks, 1).recognized)
\* C40: when a FaceDatabase is constructed after a crash over files of which
\* the metadata file or the index file is missing or cut short, and it starts
\* with no records although the index file holds the vectors of records saved
\* before, the next sync request carries no since parameter (the version it
\* starts with is 0).
C40_EmptyLoadSyncsFully ==
    [][(/\ db_pc = Crashed
        /\ db_pc' = Ready
        /\ disk.metadata.state # "complete" \/ disk.index.state # "complete"
        /\ disk.index.content # Empty
        /\ face_db'.metadata = Empty)
       => Since(GetVersion(face_db')) = ""]_vars
====
